---- MODULE Spec2Model ----
(***************************************************************************)
(* Stone drawing generator: FractionMath (fraction-utils) and the          *)
(* multi-piece PDF export pipeline (export-utils, export-utils.optimized   *)
(* and the unbatched export kept in fraction-export-utils.ts).             *)
(*                                                                         *)
(* Strings are sequences of one-character strings.  A decimal is the exact *)
(* rational <<n, q>> (n/q, q > 0); the null result is the empty tuple.     *)
(***************************************************************************)
EXTENDS Integers, Sequences, FiniteSets, TLC

VARIABLES
  \* FractionMath: one value or one string taken through the functions
  step,            \* which function was applied last
  value,         \* the decimal given to decimalToFraction, or Null
  maxDen,          \* its maxDenominator argument
  text,     \* the string given to (or made by) the functions
  parsed,          \* fractionToDecimal(text)
  valid,           \* isValidFractionString(text)
  formatted,       \* formatFractionString(text)
  formattedTwice   \* formatFractionString(formatted)

fracVars ==
  <<step, value, maxDen, text, parsed, valid, formatted, formattedTwice>>

VARIABLES
  \* one call of exportMultipleToPDF
  impl,            \* which of the three implementations is called
  given,           \* which of the arguments canvases, specsArray are arrays
  canvases,        \* per piece, what its canvas does when the image is made
  specsArray,      \* the pieces
  isMobile,        \* the platform flag
  phase,           \* Idle, Validating, Rendering, Finalizing, Delivered, Failed
  error,           \* what the returned promise was rejected with
  pdf,             \* the jsPDF document: its pages, each a list of blocks
  currentIndex,    \* the index of the next piece
  timer,           \* the pending setTimeout callback
  piecesInTask,    \* pieces handled since control was last with the host
  batchesInTask,   \* batches handled since control was last with the host
  delivery,        \* how the document reached the user
  uncaught         \* an exception left a timer callback without being caught

exportVars ==
  <<impl, given, canvases, specsArray, isMobile, phase, error, pdf,
    currentIndex, timer, piecesInTask, batchesInTask, delivery, uncaught>>

VARIABLES
  \* renders of the mockup: drawStoneMockup called by the components
  gridPatternCache,    \* the Map of drawing-utils.optimized: cache key to pattern
  createPatternCalls,  \* calls of ctx.createPattern so far
  renders,             \* render calls so far
  pieceSpecs,          \* the StoneSpecifications the components hold
  renderCall,          \* the caller, specs, options and context of the last one
  surface,             \* what the last render call drew on the canvas
  reported             \* what the last render call gave back to its caller

renderVars ==
  <<gridPatternCache, createPatternCalls, renders, pieceSpecs, renderCall,
    surface,
    reported>>

VARIABLES
  \* one exported page and the download of the document
  docCall,         \* single or multi-piece export, which module, called from where
  pieceBlock,      \* the piece block on the page: title, edges line, image
  download,        \* what handlePDFDownload / finalizePDF was given and did
  handles,         \* the transient handles now alive: object URL, iframe, link
  pendingRelease   \* the handles the pending clean-up timer releases

docVars == <<docCall, pieceBlock, download, handles, pendingRelease>>

VARIABLES
  \* the dimension inputs of the generator
  dimensions,      \* width and height of the specs the generator holds
  widthStr,        \* the text of the width input
  heightStr,       \* the text of the height input
  widthIsValid,    \* whether the width input is shown as valid
  heightIsValid,   \* whether the height input is shown as valid
  edits            \* input events so far

inputVars ==
  <<dimensions, widthStr, heightStr, widthIsValid, heightIsValid, edits>>

VARIABLES
  \* the saved pieces of the generator page and their export
  savedPieces,     \* the saved collection: id and specs of each piece
  now,             \* what Date.now() gave last
  canvasRefs,      \* canvasRefs.current of MultiPieceExport: per piece the
                   \* canvas element it refers to, or null
  exportCall       \* the arguments handleExportPDF gave exportMultipleToPDF

piecesVars == <<savedPieces, now, canvasRefs, exportCall>>

VARIABLES
  \* the preview of the generator and the redraws that keep it up to date
  generator,       \* "debounced": StoneGenerator; "animationFrame":
                   \* StoneGenerator.optimized
  current,         \* the specs and options of the last render, each named
                   \* by the number of the change that gave it its value
  needsRedraw,     \* the needsRedraw state of the last render
  queued,          \* the calls of setNeedsRedraw not rendered yet
  pendingRedraw,   \* the timer or animation frame not run yet: the specs
                   \* and options its callback draws, or null
  timerId,         \* which timer the debounced effect set last
  rereading,       \* the effect of useLocalStorage has a new object to set
  preview,         \* the specs and options the canvas was last drawn from
  changes          \* changes of specs and options so far

redrawVars ==
  <<generator, current, needsRedraw, queued, pendingRedraw, timerId,
    rereading, preview, changes>>

uiVars == <<inputVars, piecesVars, redrawVars>>

vars == <<fracVars, exportVars, renderVars, docVars, uiVars>>

\* ------------------------------------------------------------------------
\* Bounds of the model
\* ------------------------------------------------------------------------

\* decimals k/Resolution with 0 <= k < MaxWhole * Resolution are converted
Resolution == 48

MaxWhole == 3

\* input strings of up to MaxLen characters are parsed
MaxLen == 5

\* exports of up to MaxPieces canvases and pieces
MaxPieces == 5

\* up to MaxRenders calls of drawStoneMockup in a row
MaxRenders == 2

\* notes of up to MaxNoteLines lines after splitTextToSize
MaxNoteLines == 13

\* up to MaxEdits input events on the dimension inputs
MaxEdits == 3

\* up to MaxSaves clicks on "Save This Piece"
MaxSaves == 3

\* ------------------------------------------------------------------------
\* Characters, strings, numbers
\* ------------------------------------------------------------------------

DigitChars == <<"0", "1", "2", "3", "4", "5", "6", "7", "8", "9">>

Digits == {DigitChars[i] : i \in 1..10}

\* what the regular expression class \s and trim() remove (space, tab)
Whitespace == {" ", "\t"}

Null == <<>>

Abs(x) == IF x < 0 THEN -x ELSE x

Min(a, b) == IF a < b THEN a ELSE b

DigitVal(c) == CHOOSE d \in 0..9 : DigitChars[d + 1] = c

\* the regular expression \d+ anchored at both ends
IsDigits(s) == Len(s) > 0 /\ \A i \in 1..Len(s) : s[i] \in Digits

RECURSIVE DigitsToInt(_)
DigitsToInt(s) ==
  IF Len(s) = 0 THEN 0
  ELSE 10 * DigitsToInt(SubSeq(s, 1, Len(s) - 1)) + DigitVal(s[Len(s)])

\* parseInt(str, 10) on a string of digits
parseInt(s) == DigitsToInt(s)

\* Number(str) on a string of digits
Number(s) == DigitsToInt(s)

\* `${n}` for a non-negative integer n
RECURSIVE IntToStr(_)
IntToStr(n) ==
  IF n < 10 THEN <<DigitChars[n + 1]>>
  ELSE IntToStr(n \div 10) \o <<DigitChars[(n % 10) + 1]>>

\* fractionStr.trim().replace(/\s+/g, '')
CleanStr(s) == SelectSeq(s, LAMBDA c : c \notin Whitespace)

Positions(s, c) == {i \in 1..Len(s) : s[i] = c}

\* /^\d+\/\d+$/
IsSimpleFraction(s) ==
  \E p \in 1..Len(s) :
    /\ s[p] = "/"
    /\ IsDigits(SubSeq(s, 1, p - 1))
    /\ IsDigits(SubSeq(s, p + 1, Len(s)))

\* /^\d+-\d+\/\d+$/
IsMixedNumber(s) ==
  \E m \in 1..Len(s) :
    /\ s[m] = "-"
    /\ IsDigits(SubSeq(s, 1, m - 1))
    /\ IsSimpleFraction(SubSeq(s, m + 1, Len(s)))

\* str.split(c)[0] and str.split(c)[1] for a string that holds c once
SplitHead(s, c) == SubSeq(s, 1, (CHOOSE p \in Positions(s, c) : TRUE) - 1)

SplitTail(s, c) == SubSeq(s, (CHOOSE p \in Positions(s, c) : TRUE) + 1, Len(s))

\* ------------------------------------------------------------------------
\* fraction-utils
\* ------------------------------------------------------------------------

fractionToDecimalNoZeroCheck(fractionStr) ==
  LET cleanStr == CleanStr(fractionStr) IN
  IF cleanStr = <<>> THEN Null
  ELSE IF IsDigits(cleanStr) THEN <<parseInt(cleanStr), 1>>
  ELSE IF IsSimpleFraction(cleanStr) THEN
    <<Number(SplitHead(cleanStr, "/")), Number(SplitTail(cleanStr, "/"))>>
  ELSE IF IsMixedNumber(cleanStr) THEN
    LET fraction == SplitTail(cleanStr, "-")
        denominator == Number(SplitTail(fraction, "/"))
    IN <<parseInt(SplitHead(cleanStr, "-")) * denominator
           + Number(SplitHead(fraction, "/")), denominator>>
  ELSE Null

fractionToDecimal(fractionStr) ==
  LET cleanStr == CleanStr(fractionStr) IN
  IF cleanStr = <<>> THEN Null
  ELSE IF IsDigits(cleanStr) THEN <<parseInt(cleanStr), 1>>
  ELSE IF IsSimpleFraction(cleanStr) THEN
    LET numerator == Number(SplitHead(cleanStr, "/"))
        denominator == Number(SplitTail(cleanStr, "/"))
    IN IF denominator = 0 THEN Null ELSE <<numerator, denominator>>
  ELSE IF IsMixedNumber(cleanStr) THEN
    LET whole == SplitHead(cleanStr, "-")
        fraction == SplitTail(cleanStr, "-")
        numerator == Number(SplitHead(fraction, "/"))
        denominator == Number(SplitTail(fraction, "/"))
    IN IF denominator = 0 THEN Null
       ELSE <<parseInt(whole) * denominator + numerator, denominator>>
  ELSE Null

RECURSIVE findGCD(_, _)
findGCD(a, b) == IF b = 0 THEN Abs(a) ELSE findGCD(b, Abs(a) % Abs(b))

MathFloor(n, q) == n \div q

MathRoundDown(n, q) == n \div q

\* Math.round(n/q) for n >= 0: the nearest integer, halves rounded up
MathRound(n, q) == (2 * n + q) \div (2 * q)

\* error < 0.0000001 for the error errN/errD
NearZero(errN, errD) == errN <= (errD - 1) \div 10000000

\* the loop with `error <= bestError`: a later denominator of equal error
\* replaces the earlier one
RECURSIVE ClosestFractionLastWins(_, _, _, _, _, _, _, _)
ClosestFractionLastWins(r, q, denominator, maxDenominator, bestN, bestD, eN, eD) ==
  IF denominator > maxDenominator THEN <<bestN, bestD>>
  ELSE
    LET numerator == MathRound(r * denominator, q)
        errN == Abs(r * denominator - numerator * q)
        errD == q * denominator
    IN IF errN * eD <= eN * errD
       THEN IF NearZero(errN, errD) THEN <<numerator, denominator>>
            ELSE ClosestFractionLastWins(r, q, denominator + 1, maxDenominator,
                                         numerator, denominator, errN, errD)
       ELSE ClosestFractionLastWins(r, q, denominator + 1, maxDenominator,
                                    bestN, bestD, eN, eD)

\* the loop of decimalToFraction from `denominator` on, for the remainder
\* r/q and the best numerator, denominator and error (eN/eD) so far
RECURSIVE ClosestFraction(_, _, _, _, _, _, _, _)
ClosestFraction(r, q, denominator, maxDenominator, bestN, bestD, eN, eD) ==
  IF denominator > maxDenominator THEN <<bestN, bestD>>
  ELSE
    LET numerator == MathRound(r * denominator, q)
        errN == Abs(r * denominator - numerator * q)
        errD == q * denominator
    IN IF errN * eD < eN * errD
       THEN IF NearZero(errN, errD) THEN <<numerator, denominator>>
            ELSE ClosestFraction(r, q, denominator + 1, maxDenominator,
                                 numerator, denominator, errN, errD)
       ELSE ClosestFraction(r, q, denominator + 1, maxDenominator,
                            bestN, bestD, eN, eD)

FormatFraction(sign, wholePart, best) ==
  LET gcd == findGCD(best[1], best[2])
      bestNumerator == best[1] \div gcd
      bestDenominator == best[2] \div gcd
  IN IF wholePart = 0
     THEN sign \o IntToStr(bestNumerator) \o <<"/">> \o IntToStr(bestDenominator)
     ELSE sign \o IntToStr(wholePart) \o <<"-">> \o IntToStr(bestNumerator)
            \o <<"/">> \o IntToStr(bestDenominator)

decimalToFractionNoWholeReturn(decimal, maxDenominator) ==
  LET sign == IF decimal[1] < 0 THEN <<"-">> ELSE <<>>
      n == Abs(decimal[1])
      q == decimal[2]
      wholePart == MathFloor(n, q)
      r == n - wholePart * q
  IN FormatFraction(sign, wholePart,
                    ClosestFraction(r, q, 1, maxDenominator, 0, 1, r, q))

decimalToFraction(decimal, maxDenominator) ==
  LET sign == IF decimal[1] < 0 THEN <<"-">> ELSE <<>>
      n == Abs(decimal[1])
      q == decimal[2]
      wholePart == MathFloor(n, q)
      r == n - wholePart * q
  IN IF r = 0 THEN sign \o IntToStr(wholePart)
     ELSE FormatFraction(sign, wholePart,
                         ClosestFraction(r, q, 1, maxDenominator, 0, 1, r, q))

isValidFractionStringNoZeroCheck(fractionStr) ==
  LET cleanStr == CleanStr(fractionStr) IN
  IF cleanStr = <<>> THEN FALSE
  ELSE IsDigits(cleanStr) \/ IsSimpleFraction(cleanStr) \/ IsMixedNumber(cleanStr)

isValidFractionString(fractionStr) ==
  LET cleanStr == CleanStr(fractionStr) IN
  IF cleanStr = <<>> THEN FALSE
  ELSE IF IsDigits(cleanStr) THEN TRUE
  ELSE IF IsSimpleFraction(cleanStr) THEN
    Number(SplitTail(cleanStr, "/")) # 0
  ELSE IF IsMixedNumber(cleanStr) THEN
    Number(SplitTail(SplitTail(cleanStr, "-"), "/")) # 0
  ELSE FALSE

\* the default value of decimalToFraction's maxDenominator
DefaultMaxDenominator == 16

formatFractionString(fractionStr) ==
  LET decimal == fractionToDecimal(fractionStr) IN
  IF decimal = Null THEN fractionStr
  ELSE decimalToFraction(decimal, DefaultMaxDenominator)

\* ------------------------------------------------------------------------
\* export-utils (batched), export-utils.optimized (optimized) and the
\* unbatched exportMultipleToPDF of fraction-export-utils.ts (unbatched)
\* ------------------------------------------------------------------------

Impls == {"batched", "optimized", "unbatched"}

\* a canvas of the list: it renders, it is null, its toDataURL throws, or
\* its image makes pdf.addImage throw
CanvasStates == {"ok", "null", "toDataURLThrows", "addImageThrows"}

\* const batchSize = 2
batchSize == 2

NoPdf == [created |-> FALSE, pages |-> <<>>]

Block(kind, piece) == [kind |-> kind, piece |-> piece]

\* pdf.text, pdf.addImage: a block on the current (last) page
AddBlock(doc, block) ==
  [doc EXCEPT !.pages = [@ EXCEPT ![Len(@)] = Append(@, block)]]

\* pdf.addPage()
addPage(doc) == [doc EXCEPT !.pages = Append(@, <<>>)]

\* new jsPDF(PDF_CONFIG): a document of one empty page
NewPdf == [created |-> TRUE, pages |-> << <<>> >>]

\* the header block holds the piece count it prints
addProjectInfoToPDF(doc, totalPieces) == AddBlock(doc, Block("header", totalPieces))

\* canvases[i] for the 0-based index i; undefined past the end is falsy as null is
CanvasAt(i) == IF i < Len(canvases) THEN canvases[i + 1] ELSE "null"

\* the title line and the specification lines of piece index
AddPieceText(doc, index) ==
  AddBlock(AddBlock(doc, Block("title", index + 1)), Block("details", index + 1))

\* addPieceToPDF of export-utils, and the body of the unbatched forEach
addPieceToPDF(doc, canvas, index) ==
  LET withText == AddPieceText(doc, index) IN
  IF canvas = "null" THEN AddBlock(withText, Block("notAvailable", index + 1))
  ELSE IF canvas = "ok" THEN AddBlock(withText, Block("image", index + 1))
  ELSE AddBlock(withText, Block("renderError", index + 1))

\* canvasToDataURL(canvas) rejects: the canvas is null or toDataURL throws
canvasToDataURLRejects(canvas) == canvas \in {"null", "toDataURLThrows"}

\* addPieceToPDFOptimized, given the image data of a canvas
addPieceToPDFOptimized(doc, canvas, index) ==
  LET withText == AddPieceText(doc, index) IN
  IF canvas = "addImageThrows"
  THEN AddBlock(withText, Block("renderError", index + 1))
  ELSE AddBlock(withText, Block("image", index + 1))

NeedsNewPageAlways(i) == TRUE

\* if (i > 0) pdf.addPage()
NeedsNewPage(i) == i > 0

StartPage(doc, i) == IF NeedsNewPage(i) THEN addPage(doc) ELSE doc

\* the first index from i on for which pdf.addPage() is called
FirstNewPage(i) == IF NeedsNewPage(i) THEN i ELSE i + 1

ValidInputsCanvasesOnly(cs, ss) == "canvases" \in given /\ Len(cs) # 0

\* neither validation throws
ValidInputs(cs, ss) ==
  /\ "canvases" \in given /\ Len(cs) # 0
  /\ "specsArray" \in given /\ Len(ss) # 0

\* Math.min(canvases.length, specsArray.length), or specsArray.length in the
\* unbatched forEach
totalPieces ==
  IF impl = "unbatched" THEN Len(specsArray)
  ELSE Min(Len(canvases), Len(specsArray))

\* the for loop of processBatch from i up to endIndex
RECURSIVE BatchPieces(_, _, _)
BatchPieces(doc, i, endIndex) ==
  IF i >= endIndex THEN doc
  ELSE BatchPieces(addPieceToPDF(StartPage(doc, i), CanvasAt(i), i), i + 1, endIndex)

ExportInit ==
  /\ impl \in Impls
  /\ given \in SUBSET {"canvases", "specsArray"}
  /\ specsArray \in UNION {[1..n -> {"piece"}] : n \in 0..MaxPieces}
  /\ canvases \in UNION {[1..n -> CanvasStates] : n \in 0..MaxPieces}
  /\ "canvases" \notin given => canvases = <<>>
  /\ "specsArray" \notin given => specsArray = <<>>
  \* canvases no implementation reads are not varied
  /\ \A i \in 1..Len(canvases) : i > Len(specsArray) => canvases[i] = "ok"
  /\ isMobile \in BOOLEAN
  /\ phase = "Idle"
  /\ error = "none"
  /\ pdf = NoPdf
  /\ currentIndex = 0
  /\ timer = "none"
  /\ piecesInTask = 0
  /\ batchesInTask = 0
  /\ delivery = "none"
  /\ uncaught = FALSE

\* the variables of the export while the fraction functions are exercised
ExportAtRest ==
  /\ impl = "batched"
  /\ given = {}
  /\ specsArray = <<>>
  /\ canvases = <<>>
  /\ isMobile = FALSE
  /\ phase = "Idle"
  /\ error = "none"
  /\ pdf = NoPdf
  /\ currentIndex = 0
  /\ timer = "none"
  /\ piecesInTask = 0
  /\ batchesInTask = 0
  /\ delivery = "none"
  /\ uncaught = FALSE

\* exportMultipleToPDF is called
Start ==
  /\ phase = "Idle"
  /\ phase' = "Validating"
  /\ UNCHANGED <<impl, given, canvases, specsArray, isMobile, error, pdf,
                 currentIndex, timer, piecesInTask, batchesInTask, delivery,
                 uncaught>>

\* the two checks of the arguments
Validate ==
  /\ phase = "Validating"
  /\ IF ValidInputs(canvases, specsArray)
     THEN phase' = "Rendering" /\ error' = error
     ELSE phase' = "Failed" /\ error' = "validation"
  /\ UNCHANGED <<impl, given, canvases, specsArray, isMobile, pdf,
                 currentIndex, timer, piecesInTask, batchesInTask, delivery,
                 uncaught>>

\* new jsPDF(PDF_CONFIG) and the project header; the constructor may throw
CreateDocument ==
  /\ phase = "Rendering"
  /\ ~pdf.created
  /\ \E throws \in BOOLEAN :
       IF throws
       THEN phase' = "Failed" /\ error' = "fatal" /\ pdf' = pdf
       ELSE /\ pdf' = addProjectInfoToPDF(NewPdf, Len(specsArray))
            /\ UNCHANGED <<phase, error>>
  /\ UNCHANGED <<impl, given, canvases, specsArray, isMobile,
                 currentIndex, timer, piecesInTask, batchesInTask, delivery,
                 uncaught>>

\* processBatch of export-utils: called once by processCanvasesInBatches and
\* then by each timer it sets
ProcessBatch ==
  /\ impl = "batched"
  /\ phase = "Rendering"
  /\ pdf.created
  /\ ~uncaught
  /\ timer \in {"none", "processBatch"}
  /\ LET fromTimer == timer = "processBatch"
         endIndex == Min(currentIndex + batchSize, totalPieces)
         newPage == FirstNewPage(currentIndex)
         piecesBefore == IF fromTimer THEN 0 ELSE piecesInTask
         batchesBefore == IF fromTimer THEN 0 ELSE batchesInTask
     IN IF currentIndex >= totalPieces
        THEN /\ phase' = "Finalizing"
             /\ timer' = "none"
             /\ piecesInTask' = piecesBefore
             /\ batchesInTask' = batchesBefore
             /\ UNCHANGED <<pdf, currentIndex, error, uncaught>>
        ELSE \E addPageThrows \in BOOLEAN :
               IF addPageThrows
               THEN \* the first pdf.addPage() of the batch throws: in the
                    \* first call the try of processCanvasesInBatches
                    \* rejects, in a timer callback nothing catches it
                    /\ newPage < endIndex
                    /\ pdf' = BatchPieces(pdf, currentIndex, newPage)
                    /\ timer' = "none"
                    /\ piecesInTask' = piecesBefore + (newPage - currentIndex)
                    /\ batchesInTask' = batchesBefore + 1
                    /\ currentIndex' = currentIndex
                    /\ IF fromTimer
                       THEN uncaught' = TRUE /\ UNCHANGED <<phase, error>>
                       ELSE /\ phase' = "Failed" /\ error' = "fatal"
                            /\ uncaught' = uncaught
               ELSE /\ pdf' = BatchPieces(pdf, currentIndex, endIndex)
                    /\ currentIndex' = endIndex
                    /\ timer' = "processBatch"
                    /\ piecesInTask' = piecesBefore + (endIndex - currentIndex)
                    /\ batchesInTask' = batchesBefore + 1
                    /\ UNCHANGED <<phase, error, uncaught>>
  /\ UNCHANGED <<impl, given, canvases, specsArray, isMobile, delivery>>

\* one turn of the for loop of export-utils.optimized: it resumes from the
\* timer of the turn before, if that turn reached its setTimeout
ProcessPiece ==
  /\ impl = "optimized"
  /\ phase = "Rendering"
  /\ pdf.created
  /\ timer \in {"none", "yield"}
  /\ LET fromTimer == timer = "yield"
         i == currentIndex
         canvas == CanvasAt(i)
         started == StartPage(pdf, i)
     IN IF i >= totalPieces
        THEN /\ phase' = "Finalizing"
             /\ timer' = "none"
             /\ piecesInTask' = IF fromTimer THEN 0 ELSE piecesInTask
             /\ batchesInTask' = IF fromTimer THEN 0 ELSE batchesInTask
             /\ UNCHANGED <<pdf, currentIndex, error>>
        ELSE \E addPageThrows \in BOOLEAN :
             IF addPageThrows
             THEN \* pdf.addPage() is outside the try of the loop: the async
                  \* function rejects
                  /\ NeedsNewPage(i)
                  /\ phase' = "Failed" /\ error' = "fatal"
                  /\ timer' = "none"
                  /\ piecesInTask' = IF fromTimer THEN 0 ELSE piecesInTask
                  /\ batchesInTask' = IF fromTimer THEN 0 ELSE batchesInTask
                  /\ UNCHANGED <<pdf, currentIndex>>
             ELSE
             /\ currentIndex' = i + 1
             /\ UNCHANGED <<phase, error>>
             /\ IF canvasToDataURLRejects(canvas)
                THEN \* the catch of the loop: on to the next piece at once
                     /\ pdf' = started
                     /\ timer' = "none"
                     /\ piecesInTask' = (IF fromTimer THEN 0 ELSE piecesInTask) + 1
                     /\ batchesInTask' = (IF fromTimer THEN 0 ELSE batchesInTask) + 1
                ELSE \* where OffscreenCanvas exists the image data arrives in
                     \* a later task, and the piece is added there
                     \E viaOffscreenCanvas \in BOOLEAN :
                       /\ pdf' = addPieceToPDFOptimized(started, canvas, i)
                       /\ timer' = "yield"
                       /\ piecesInTask' =
                            (IF fromTimer \/ viaOffscreenCanvas THEN 0
                             ELSE piecesInTask) + 1
                       /\ batchesInTask' =
                            (IF fromTimer \/ viaOffscreenCanvas THEN 0
                             ELSE batchesInTask) + 1
  /\ UNCHANGED <<impl, given, canvases, specsArray, isMobile, delivery, uncaught>>

\* the forEach giving up the export at the first piece whose image fails
ProcessAllAbortsOnImageError ==
  /\ impl = "unbatched"
  /\ phase = "Rendering"
  /\ pdf.created
  /\ IF \E i \in 0..(totalPieces - 1) : CanvasAt(i) # "ok"
     THEN /\ phase' = "Failed" /\ error' = "image"
          /\ UNCHANGED <<pdf, currentIndex, piecesInTask>>
     ELSE /\ pdf' = BatchPieces(pdf, 0, totalPieces)
          /\ currentIndex' = totalPieces
          /\ piecesInTask' = piecesInTask + totalPieces
          /\ phase' = "Finalizing" /\ error' = error
  /\ batchesInTask' = batchesInTask + 1
  /\ UNCHANGED <<impl, given, canvases, specsArray, isMobile, timer,
                 delivery, uncaught>>

\* specsArray.forEach of the unbatched export
ProcessAll ==
  /\ impl = "unbatched"
  /\ phase = "Rendering"
  /\ pdf.created
  /\ \E addPageThrows \in BOOLEAN :
       IF addPageThrows
       THEN \* pdf.addPage() throws for the second piece: the async function
            \* rejects
            /\ FirstNewPage(0) < totalPieces
            /\ pdf' = BatchPieces(pdf, 0, FirstNewPage(0))
            /\ currentIndex' = FirstNewPage(0)
            /\ piecesInTask' = piecesInTask + FirstNewPage(0)
            /\ phase' = "Failed" /\ error' = "fatal"
       ELSE /\ pdf' = BatchPieces(pdf, 0, totalPieces)
            /\ currentIndex' = totalPieces
            /\ piecesInTask' = piecesInTask + totalPieces
            /\ phase' = "Finalizing" /\ error' = error
  /\ batchesInTask' = batchesInTask + 1
  /\ UNCHANGED <<impl, given, canvases, specsArray, isMobile, timer,
                 delivery, uncaught>>

\* finalizePDF / handlePDFDownload: pdf.save on desktop; on mobile pdf.output,
\* then the document is shown and a timer set for the clean-up.  pdf.save and
\* pdf.output may throw; showing the document may throw inside the inner try.
Finalize ==
  /\ phase = "Finalizing"
  /\ delivery = "none"
  /\ \E outcome \in {"ok", "throws", "showThrows"} :
       IF outcome = "throws"
       THEN phase' = "Failed" /\ error' = "fatal" /\ UNCHANGED <<timer, delivery>>
       ELSE IF ~isMobile
       THEN /\ outcome = "ok"
            /\ phase' = "Delivered" /\ delivery' = "saved"
            /\ UNCHANGED <<timer, error>>
       ELSE IF outcome = "showThrows"
       THEN \* the catch of the inner try: window.open of the data URL
            /\ phase' = "Delivered" /\ delivery' = "fallback"
            /\ UNCHANGED <<timer, error>>
       ELSE /\ delivery' = "shown"
            /\ timer' = "cleanup"
            \* export-utils resolves in the clean-up timer, the others now
            /\ phase' = IF impl = "batched" THEN "Finalizing" ELSE "Delivered"
            /\ error' = error
  /\ UNCHANGED <<impl, given, canvases, specsArray, isMobile, pdf,
                 currentIndex, piecesInTask, batchesInTask, uncaught>>

\* the clean-up timer of the mobile delivery: removeChild(iframe), then, in
\* export-utils, resolve(); removeChild may throw
Cleanup ==
  /\ timer = "cleanup"
  /\ timer' = "none"
  /\ \E removeChildThrows \in BOOLEAN :
       IF removeChildThrows
       THEN uncaught' = TRUE /\ phase' = phase
       ELSE uncaught' = uncaught /\ phase' = "Delivered"
  /\ piecesInTask' = 0
  /\ batchesInTask' = 0
  /\ UNCHANGED <<impl, given, canvases, specsArray, isMobile, error, pdf,
                 currentIndex, delivery>>

\* ------------------------------------------------------------------------
\* drawing-utils (original) and drawing-utils.optimized (optimized), and the
\* components that call drawStoneMockup
\* ------------------------------------------------------------------------

\* arithmetic on the exact rationals <<n, q>>, q > 0
Reduce(a) ==
  LET g == findGCD(a[1], a[2]) IN
  IF g = 0 THEN a ELSE <<a[1] \div g, a[2] \div g>>

RatMul(a, b) == Reduce(<<a[1] * b[1], a[2] * b[2]>>)

\* a / b for b # 0
RatDiv(a, b) ==
  IF b[1] > 0 THEN Reduce(<<a[1] * b[2], a[2] * b[1]>>)
  ELSE Reduce(<<-(a[1] * b[2]), a[2] * (-b[1])>>)

RatAdd(a, b) == Reduce(<<a[1] * b[2] + b[1] * a[2], a[2] * b[2]>>)

RatSub(a, b) == Reduce(<<a[1] * b[2] - b[1] * a[2], a[2] * b[2]>>)

RatLeq(a, b) == a[1] * b[2] <= b[1] * a[2]

\* Math.min(a, b)
RatMin(a, b) == IF RatLeq(a, b) THEN a ELSE b

Int2Rat(n) == <<n, 1>>

\* <canvas width={800} height={600}>
canvasWidth == 800

canvasHeight == 600

\* padding = 40, the default of drawStoneMockup; no component passes another
DefaultPadding == 40

Sides == {"top", "bottom", "left", "right"}

\* polishedEdges.includes(side)
Includes(arr, x) == \E i \in 1..Len(arr) : arr[i] = x

\* const spacing = 20 of drawXMarks
spacing == 20

\* the turns of `for (let i = spacing; i < length; i += spacing)`
XMarks(length) ==
  IF length[1] <= 0 THEN 0 ELSE (length[1] - 1) \div (spacing * length[2])

\* the length drawXMarks is given for a side
SideLength(side, rect) ==
  IF side \in {"top", "bottom"} THEN rect.width ELSE rect.height

Selected(polishedEdges) == {side \in Sides : Includes(polishedEdges, side)}

\* drawPolishedEdges of drawing-utils: the stroke() calls for the edge lines
\* (red, lineWidth 4) and for the X marks (red, lineWidth 2)
drawPolishedEdges(rect, polishedEdges, useXMarks) ==
  LET sel == Selected(polishedEdges)
      marksOf(side) == IF side \in sel /\ useXMarks
                       THEN 2 * XMarks(SideLength(side, rect)) ELSE 0
  IN [edgeStrokes |-> Cardinality(sel),
      markStrokes |-> marksOf("top") + marksOf("bottom") + marksOf("left")
                        + marksOf("right")]

\* drawPolishedEdgesOptimized: one path and one stroke() for the edge lines,
\* one path and one stroke() per side for its X marks
drawPolishedEdgesOptimized(rect, polishedEdges, useXMarks) ==
  IF Len(polishedEdges) = 0 THEN [edgeStrokes |-> 0, markStrokes |-> 0]
  ELSE [edgeStrokes |-> 1,
        markStrokes |-> IF useXMarks THEN Cardinality(Selected(polishedEdges))
                        ELSE 0]

NoPattern == 0

\* `grid-${scale}`: one key per value of scale
CacheKey(scale) == Reduce(scale)

CacheHasNever(cache, cacheKey) == FALSE

\* gridPatternCache.has(cacheKey)
CacheHas(cache, cacheKey) == cacheKey \in DOMAIN cache

\* getGridPattern(ctx, scale): the pattern it returns, the cache and the count
\* of createPattern calls after it.  patternCtx is what getContext('2d') of
\* the pattern canvas gives, created whether createPattern gives a pattern.
getGridPattern(cache, calls, scale, patternCtx, created) ==
  LET cacheKey == CacheKey(scale) IN
  IF CacheHas(cache, cacheKey)
  THEN [pattern |-> cache[cacheKey], cached |-> TRUE, cache |-> cache,
        calls |-> calls]
  ELSE IF patternCtx = "null"
  THEN [pattern |-> NoPattern, cached |-> FALSE, cache |-> cache, calls |-> calls]
  ELSE IF created
  THEN [pattern |-> calls + 1, cached |-> FALSE,
        cache |-> [k \in DOMAIN cache \cup {cacheKey} |->
                     IF k = cacheKey THEN calls + 1 ELSE cache[k]],
        calls |-> calls + 1]
  ELSE [pattern |-> NoPattern, cached |-> FALSE, cache |-> cache,
        calls |-> calls + 1]

\* the centred rectangle of drawStoneMockup for a canvasWidth x canvasHeight
\* canvas
StoneRect(specs, options) ==
  LET maxWidth == canvasWidth - options.padding * 2
      maxHeight == canvasHeight - options.padding * 2
      widthScale == RatDiv(Int2Rat(maxWidth), specs.width)
      heightScale == RatDiv(Int2Rat(maxHeight), specs.height)
      finalScale == RatMul(RatMin(widthScale, heightScale), options.scale)
      scaledWidth == RatMul(specs.width, finalScale)
      scaledHeight == RatMul(specs.height, finalScale)
  IN [x |-> RatDiv(RatSub(Int2Rat(canvasWidth), scaledWidth), Int2Rat(2)),
      y |-> RatDiv(RatSub(Int2Rat(canvasHeight), scaledHeight), Int2Rat(2)),
      width |-> scaledWidth,
      height |-> scaledHeight,
      finalScale |-> finalScale]

\* a canvas nothing was drawn on
BlankSurface ==
  [background |-> FALSE, minorGrid |-> "none", majorGrid |-> FALSE,
   rect |-> Null, edgeStrokes |-> 0, markStrokes |-> 0, labels |-> FALSE]

\* drawStoneMockup(ctx, specs, options) of either module: what it draws, and
\* the cache and the count of createPattern calls after it
drawStoneMockup(renderer, specs, options, cache, calls, patternCtx, created) ==
  LET rect == StoneRect(specs, options)
      quarter == RatMul(rect.finalScale, <<1, 4>>)
      grid == IF options.showGrid /\ renderer = "optimized"
              THEN getGridPattern(cache, calls, quarter, patternCtx, created)
              ELSE [pattern |-> NoPattern, cached |-> FALSE, cache |-> cache,
                    calls |-> calls]
      edges == IF ~options.showPolishedEdges
               THEN [edgeStrokes |-> 0, markStrokes |-> 0]
               ELSE IF renderer = "optimized"
               THEN drawPolishedEdgesOptimized(rect, specs.polishedEdges,
                                               options.useXMarks)
               ELSE drawPolishedEdges(rect, specs.polishedEdges, options.useXMarks)
  IN [surface |->
        [background |-> TRUE,
         minorGrid |-> IF ~options.showGrid THEN "none"
                       ELSE IF renderer = "original" THEN "lines"
                       ELSE IF grid.pattern = NoPattern THEN "skipped"
                       ELSE IF grid.cached THEN "cachedPattern"
                       ELSE "newPattern",
         majorGrid |-> options.showGrid,
         rect |-> [x |-> rect.x, y |-> rect.y,
                   width |-> rect.width, height |-> rect.height],
         edgeStrokes |-> edges.edgeStrokes,
         markStrokes |-> edges.markStrokes,
         labels |-> TRUE],
      cache |-> grid.cache,
      calls |-> grid.calls]

\* Math.floor, Math.ceil and Math.round of a rational
RatFloor(a) == a[1] \div a[2]

RatCeil(a) == -((-a[1]) \div a[2])

RatRound(a) == (2 * a[1] + a[2]) \div (2 * a[2])

\* for (let i = 0; i <= length; i += gridSpacing): the values of start + i
LinesFrom(start, length, gap) ==
  {RatAdd(start, RatMul(Int2Rat(k), gap)) :
     k \in 0..RatFloor(RatDiv(length, gap))}

\* the multiples of gap, counted from the origin of the canvas, that
\* lie between start and start + length
LinesOfCanvas(start, length, gap) ==
  {RatMul(Int2Rat(k), gap) :
     k \in RatCeil(RatDiv(start, gap))
            ..RatFloor(RatDiv(RatAdd(start, length), gap))}

\* drawGrid of drawing-utils: the canvas coordinates of the lines it strokes.
\* Vertical lines run from rect.y to rect.y + rect.height, horizontal ones
\* from rect.x to rect.x + rect.width.
drawGrid(rect) ==
  LET gridSpacing == RatMul(<<1, 4>>, rect.finalScale)
      majorGridSpacing == rect.finalScale
  IN [minorVertical |-> LinesFrom(rect.x, rect.width, gridSpacing),
      minorHorizontal |-> LinesFrom(rect.y, rect.height, gridSpacing),
      majorVertical |-> LinesFrom(rect.x, rect.width, majorGridSpacing),
      majorHorizontal |-> LinesFrom(rect.y, rect.height, majorGridSpacing)]

\* drawGridOptimized of drawing-utils.optimized: the canvas coordinates of
\* the lines it paints inside its clip, which is the rectangle.  The minor
\* grid is the pattern of getGridPattern, a tile of Math.round(scale * 0.25)
\* pixels with a line on its top and on its left side, repeated from the
\* origin of the canvas; without a pattern there is no minor grid.  The
\* major lines are those of startX, startX + majorGridSpacing, .. that the
\* test i >= x && i <= x + width lets through.
drawGridOptimized(rect, hasPattern) ==
  LET patternSize == RatRound(RatMul(rect.finalScale, <<1, 4>>))
      majorGridSpacing == rect.finalScale
      tiled(start, length) ==
        IF hasPattern /\ patternSize > 0
        THEN LinesOfCanvas(start, length, Int2Rat(patternSize))
        ELSE {}
  IN [minorVertical |-> tiled(rect.x, rect.width),
      minorHorizontal |-> tiled(rect.y, rect.height),
      majorVertical |-> LinesOfCanvas(rect.x, rect.width, majorGridSpacing),
      majorHorizontal |-> LinesOfCanvas(rect.y, rect.height, majorGridSpacing)]

NoGrid ==
  [minorVertical |-> {}, minorHorizontal |-> {}, majorVertical |-> {},
   majorHorizontal |-> {}]

\* the grid lines drawStoneMockup of a renderer draws
GridOf(renderer, specs, options, hasPattern) ==
  IF ~options.showGrid THEN NoGrid
  ELSE IF renderer = "optimized"
  THEN drawGridOptimized(StoneRect(specs, options), hasPattern)
  ELSE drawGrid(StoneRect(specs, options))

\* widths and heights of pieces: 24, 4, 24.5, 4.25
PieceSizes ==
  {[width |-> <<24, 1>>, height |-> <<4, 1>>],
   [width |-> <<49, 2>>, height |-> <<17, 4>>]}

EdgeLists ==
  {<<>>, <<"top">>, <<"top", "bottom">>, <<"top", "bottom", "left", "right">>}

\* the scale slider: 0.5 to 2
Scales == {<<1, 2>>, <<1, 1>>, <<2, 1>>}

\* the options a StoneGenerator holds
MockupOptions ==
  [showGrid : BOOLEAN, showPolishedEdges : BOOLEAN, useXMarks : BOOLEAN,
   scale : Scales, padding : {DefaultPadding}]

\* the options MultiPieceExport passes
ExportOptions ==
  [showGrid |-> TRUE, showPolishedEdges |-> TRUE, useXMarks |-> TRUE,
   scale |-> <<1, 1>>, padding |-> DefaultPadding]

NoCall == [caller |-> "none"]

SpecsOf(size, polishedEdges) ==
  [width |-> size.width, height |-> size.height, polishedEdges |-> polishedEdges]

\* the specs of a new StoneGenerator: 24 x 4, top edge polished
DefaultSpecs == SpecsOf([width |-> <<24, 1>>, height |-> <<4, 1>>], <<"top">>)

\* the variables of the renders while nothing is rendered
RenderAtRest ==
  /\ gridPatternCache = [k \in {} |-> NoPattern]
  /\ createPatternCalls = 0
  /\ renders = 0
  /\ pieceSpecs = DefaultSpecs
  /\ renderCall = NoCall
  /\ surface = BlankSurface
  /\ reported = "none"

RenderInit ==
  /\ gridPatternCache = [k \in {} |-> NoPattern]
  /\ createPatternCalls = 0
  /\ renders = 0
  /\ pieceSpecs \in {SpecsOf(size, polishedEdges) :
                  size \in PieceSizes, polishedEdges \in EdgeLists}
  /\ renderCall = NoCall
  /\ surface = BlankSurface
  /\ reported = "none"

\* canvas.getContext('2d') and then drawStoneMockup, as the three components
\* do it: without a context they return and nothing is drawn
RenderFrom(caller, renderer, whenNoContext, options) ==
  /\ renders < MaxRenders
  /\ renders' = renders + 1
  /\ pieceSpecs' = pieceSpecs
  /\ \E env \in {<<"null", "ok", TRUE>>, <<"ok", "null", TRUE>>,
                 <<"ok", "ok", FALSE>>, <<"ok", "ok", TRUE>>} :
       LET context == env[1]
           patternCtx == env[2]
           created == env[3]
       IN
       /\ renderCall' = [caller |-> caller, renderer |-> renderer,
                         options |-> options, context |-> context]
       /\ IF context = "null"
          THEN /\ surface' = BlankSurface
               /\ reported' = whenNoContext
               /\ UNCHANGED <<gridPatternCache, createPatternCalls>>
          ELSE LET drawn == drawStoneMockup(renderer, pieceSpecs, options,
                                            gridPatternCache,
                                            createPatternCalls,
                                            patternCtx, created)
               IN /\ surface' = drawn.surface
                  /\ gridPatternCache' = drawn.cache
                  /\ createPatternCalls' = drawn.calls
                  /\ reported' = "returned"

\* redrawCanvas of StoneGenerator
redrawCanvas ==
  \E options \in MockupOptions :
    RenderFrom("StoneGenerator", "original", "nothing", options)

\* the requestAnimationFrame callback of redrawCanvas of StoneGenerator.optimized
redrawCanvasOptimized ==
  \E options \in MockupOptions :
    RenderFrom("StoneGenerator.optimized", "optimized", "nothing", options)

\* renderCanvas of MultiPieceExport
renderCanvas ==
  RenderFrom("MultiPieceExport", "original", "false", ExportOptions)

\* ------------------------------------------------------------------------
\* The piece block of an exported page and the download of the document:
\* createSinglePiecePDF, addPieceToPDF, handlePDFDownload and finalizePDF of
\* export-utils (batched), export-utils.optimized (optimized) and the older
\* export kept in fraction-export-utils.ts (unbatched)
\* ------------------------------------------------------------------------

\* `${n}` for a decimal n with at most two decimal places
NumStr(d) ==
  LET whole == d[1] \div d[2]
      hundredths == ((d[1] % d[2]) * 100) \div d[2]
  IN IF hundredths = 0 THEN IntToStr(whole)
     ELSE IF hundredths % 10 = 0
     THEN IntToStr(whole) \o <<".">> \o IntToStr(hundredths \div 10)
     ELSE IntToStr(whole) \o <<".", DigitChars[(hundredths \div 10) + 1]>>
            \o IntToStr(hundredths % 10)

UpperCase ==
  <<"A", "B", "C", "D", "E", "F", "G", "H", "I", "J", "K", "L", "M",
    "N", "O", "P", "Q", "R", "S", "T", "U", "V", "W", "X", "Y", "Z">>

LowerCase ==
  <<"a", "b", "c", "d", "e", "f", "g", "h", "i", "j", "k", "l", "m",
    "n", "o", "p", "q", "r", "s", "t", "u", "v", "w", "x", "y", "z">>

\* str.toLowerCase()
toLowerCase(str) ==
  [i \in 1..Len(str) |->
     IF \E k \in 1..26 : UpperCase[k] = str[i]
     THEN LowerCase[CHOOSE k \in 1..26 : UpperCase[k] = str[i]]
     ELSE str[i]]

\* str.replace(/\s+/g, '-')
RECURSIVE ReplaceWhitespace(_)
ReplaceWhitespace(str) ==
  IF Len(str) = 0 THEN <<>>
  ELSE IF str[1] \in Whitespace
  THEN IF Len(str) > 1 /\ str[2] \in Whitespace
       THEN ReplaceWhitespace(Tail(str))
       ELSE <<"-">> \o ReplaceWhitespace(Tail(str))
  ELSE <<str[1]>> \o ReplaceWhitespace(Tail(str))

\* 'Stone Project'
DefaultProjectName ==
  <<"S", "t", "o", "n", "e", " ", "P", "r", "o", "j", "e", "c", "t">>

\* `${safeProjectName}-stone-project.pdf`
MultiFilename(projectName) ==
  toLowerCase(ReplaceWhitespace(projectName))
    \o <<"-", "s", "t", "o", "n", "e", "-", "p", "r", "o", "j", "e", "c", "t",
         ".", "p", "d", "f">>

\* `stone-mockup-${displayWidth}x${displayHeight}.pdf`
SingleFilename(displayWidth, displayHeight) ==
  <<"s", "t", "o", "n", "e", "-", "m", "o", "c", "k", "u", "p", "-">>
    \o displayWidth \o <<"x">> \o displayHeight \o <<".", "p", "d", "f">>

\* the specs finalizePDF of export-utils.optimized hands to handlePDFDownload
MultiDisplayWidth == <<"m", "u", "l", "t", "i">>

MultiDisplayHeight == <<"p", "i", "e", "c", "e">>

\* polishedEdges may be missing from the specs
Undefined == "undefined"

\* polishedEdges.join(', ') as the list of its parts
RECURSIVE Join(_)
Join(arr) ==
  IF Len(arr) = 0 THEN <<>>
  ELSE IF Len(arr) = 1 THEN <<arr[1]>>
  ELSE <<arr[1], ", ">> \o Join(Tail(arr))

\* the polished-edges line, as the list of its parts
polishedEdgesText(polishedEdges) ==
  IF polishedEdges # Undefined
  THEN <<"Polished Edges: ">> \o Join(polishedEdges)
  ELSE <<"Polished Edges: ", "None">>

\* PDF_MARGINS.top
marginTop == 20

\* IMAGE_SIZE.height
imageHeight == 120

\* the height in mm of a landscape A4 page (PDF_CONFIG)
pageHeight == 210

\* Math.min(textLines.length * 5, 60)
notesHeight(noteLines) == Min(noteLines * 5, 60)

notesHeightUncapped(noteLines) == noteLines * 5

\* yPosition of createSinglePiecePDF; noteLines = 0 stands for no notes or
\* blank notes
SingleImageY(impl_, noteLines) ==
  IF impl_ = "unbatched"
  THEN IF noteLines > 0 THEN 85 ELSE 65
  ELSE marginTop + 45 + (IF noteLines > 0 THEN notesHeight(noteLines) ELSE 0)

\* imgYPosition of addPieceToPDF, addPieceToPDFOptimized and the forEach of
\* the unbatched export
MultiImageY(impl_, noteLines, isFirstPage) ==
  LET titleY == IF isFirstPage THEN marginTop + 35 ELSE marginTop
      yStart == IF isFirstPage THEN titleY + 10 ELSE marginTop + 10
  IN yStart + 35 +
       (IF noteLines = 0 THEN 0
        ELSE IF impl_ = "unbatched" THEN notesHeightUncapped(noteLines)
        ELSE notesHeight(noteLines))

\* how the exports are reached: the components call export-utils and
\* export-utils.optimized with the specs they hold; the wrappers of
\* fraction-export-utils.ts add displayWidth and displayHeight first
DocCalls ==
  {[kind |-> "single", impl |-> "batched", route |-> "StoneGenerator"],
   [kind |-> "single", impl |-> "optimized", route |-> "StoneGenerator.optimized"],
   [kind |-> "single", impl |-> "batched", route |-> "fractionWrapper"],
   [kind |-> "single", impl |-> "unbatched", route |-> "direct"],
   [kind |-> "multi", impl |-> "batched", route |-> "MultiPieceExport"],
   [kind |-> "multi", impl |-> "batched", route |-> "fractionWrapper"],
   [kind |-> "multi", impl |-> "optimized", route |-> "direct"],
   [kind |-> "multi", impl |-> "unbatched", route |-> "direct"]}

\* specs.displayWidth || specs.width, as the string the template prints
DisplayOf(route, dimension) ==
  IF route = "fractionWrapper"
  THEN decimalToFraction(dimension, DefaultMaxDenominator)
  ELSE NumStr(dimension)

NoPage == [made |-> FALSE]

NoDownload == [done |-> FALSE]

\* the variables of the page and the download while no page is exported
DocAtRest ==
  /\ docCall = [kind |-> "single", impl |-> "batched", route |-> "StoneGenerator"]
  /\ pieceBlock = NoPage
  /\ download = NoDownload
  /\ handles = {}
  /\ pendingRelease = {}

DocInit ==
  /\ docCall \in DocCalls
  /\ pieceBlock = NoPage
  /\ download = NoDownload
  /\ handles = {}
  /\ pendingRelease = {}

\* createSinglePiecePDF, or addPieceToPDF for one piece: the title, the
\* polished-edges line and the position of the image
CreatePage ==
  /\ pieceBlock = NoPage
  /\ \E size \in PieceSizes,
        polishedEdges \in {Undefined, <<>>, <<"top">>, <<"top", "bottom">>},
        noteLines \in 0..MaxNoteLines,
        index \in {0, 1} :
       /\ docCall.kind = "single" => index = 0
       /\ LET displayWidth == DisplayOf(docCall.route, size.width)
              displayHeight == DisplayOf(docCall.route, size.height)
          IN pieceBlock' =
               [made |-> TRUE,
                width |-> size.width,
                height |-> size.height,
                polishedEdges |-> polishedEdges,
                noteLines |-> noteLines,
                index |-> index,
                title |-> [heading |-> IF docCall.kind = "single"
                                        THEN "Stone Mockup" ELSE "Piece",
                           width |-> displayWidth, height |-> displayHeight],
                displayWidth |-> displayWidth,
                displayHeight |-> displayHeight,
                edgesLine |-> polishedEdgesText(polishedEdges),
                imageY |-> IF docCall.kind = "single"
                           THEN SingleImageY(docCall.impl, noteLines)
                           ELSE MultiImageY(docCall.impl, noteLines, index = 0)]
  /\ UNCHANGED <<docCall, download, handles, pendingRelease>>

\* what the browser does with the document: window.open gives a window
\* (opens) or null (blocked); the first window.open throws and a later one
\* gives a window (openThrows); every window.open throws (allThrow); the
\* assignment to iframe.src throws (srcThrows)
Envs == {"opens", "blocked", "openThrows", "allThrow", "srcThrows"}

ProjectNames ==
  {<<>>, DefaultProjectName, <<"M", "y", " ", " ", "K", "i", "t">>,
   <<"A", "\t", "b">>}

DownloadResult(saved, calls, opened, clicks, created, live, timed, settled) ==
  [saved |-> saved, windowOpenCalls |-> calls, opened |-> opened,
   linkClicks |-> clicks, created |-> created, live |-> live,
   timed |-> timed, settled |-> settled]

\* handlePDFDownload and finalizePDF of export-utils, and the same code of
\* the unbatched export, which resolves without waiting for its timer
IframeDownload(filename, isMobile_, isIOS, env, resolvesInTimer) ==
  IF ~isMobile_
  THEN DownloadResult(filename, 0, 0, 0, {}, {}, {}, "resolved")
  ELSE IF env = "srcThrows"
  THEN \* the catch of the inner try: window.open(pdfOutput, '_blank')
       DownloadResult(Null, 1, 1, 0, {"iframe"}, {"iframe"}, {}, "resolved")
  ELSE IF isIOS /\ env = "openThrows"
  THEN DownloadResult(Null, 2, 1, 0, {"iframe"}, {"iframe"}, {}, "resolved")
  ELSE IF isIOS /\ env = "allThrow"
  THEN \* window.open throws in the catch too: the outer catch rejects
       DownloadResult(Null, 2, 0, 0, {"iframe"}, {"iframe"}, {}, "rejected")
  ELSE DownloadResult(Null,
                      IF isIOS THEN 1 ELSE 0,
                      IF isIOS /\ env = "opens" THEN 1 ELSE 0,
                      0, {"iframe"}, {"iframe"}, {"iframe"},
                      IF resolvesInTimer THEN "pending" ELSE "resolved")

\* handlePDFDownload of export-utils.optimized
BlobDownload(filename, isMobile_, env) ==
  IF ~isMobile_
  THEN DownloadResult(filename, 0, 0, 0, {}, {}, {}, "resolved")
  ELSE IF env = "openThrows"
  THEN \* the catch: window.open(pdf.output('datauristring'), '_blank')
       DownloadResult(Null, 2, 1, 0, {"objectURL"}, {"objectURL"}, {}, "resolved")
  ELSE IF env = "allThrow"
  THEN DownloadResult(Null, 2, 0, 0, {"objectURL"}, {"objectURL"}, {}, "rejected")
  ELSE IF env = "blocked"
  THEN \* the link is appended, clicked and removed again
       DownloadResult(Null, 1, 0, 1, {"objectURL", "link"}, {"objectURL"},
                      {"objectURL"}, "resolved")
  ELSE DownloadResult(Null, 1, 1, 0, {"objectURL"}, {"objectURL"},
                      {"objectURL"}, "resolved")

\* the filename the export computes and hands to pdf.save
FilenameOf(call, block, projectName) ==
  IF call.kind = "single"
  THEN SingleFilename(block.displayWidth, block.displayHeight)
  ELSE IF call.impl = "optimized"
  THEN SingleFilename(MultiDisplayWidth, MultiDisplayHeight)
  ELSE MultiFilename(IF projectName = <<>> THEN DefaultProjectName
                     ELSE projectName)

\* the isMobile the export is given: exportToPDF of fraction-export-utils.ts
\* has no such parameter and leaves the default, false
IsMobileGiven(call, platformMobile) ==
  IF call.kind = "single" /\ call.route = "fractionWrapper" THEN FALSE
  ELSE platformMobile

\* handlePDFDownload for a single piece, finalizePDF for a project
Download ==
  /\ pieceBlock # NoPage
  /\ download = NoDownload
  /\ \E projectName \in ProjectNames, platformMobile \in BOOLEAN,
        isIOS \in BOOLEAN, env \in Envs :
       /\ docCall.kind = "single" => projectName = <<>>
       /\ ~platformMobile => (~isIOS /\ env = "opens")
       /\ LET filename == FilenameOf(docCall, pieceBlock, projectName)
              mobile == IsMobileGiven(docCall, platformMobile)
              result == IF docCall.impl = "optimized"
                        THEN BlobDownload(filename, mobile, env)
                        ELSE IframeDownload(filename, mobile, isIOS, env,
                                            docCall.impl = "batched")
          IN /\ download' =
                  [done |-> TRUE, projectName |-> projectName,
                   platformMobile |-> platformMobile, isMobile |-> mobile,
                   isIOS |-> isIOS, env |-> env, saved |-> result.saved,
                   windowOpenCalls |-> result.windowOpenCalls,
                   opened |-> result.opened,
                   linkClicks |-> result.linkClicks,
                   created |-> result.created, settled |-> result.settled]
             /\ handles' = result.live
             /\ pendingRelease' = result.timed
  /\ UNCHANGED <<docCall, pieceBlock>>

\* the clean-up timer: document.body.removeChild(iframe), or
\* URL.revokeObjectURL(url); export-utils resolves here
Release ==
  /\ pendingRelease # {}
  /\ handles' = handles \ pendingRelease
  /\ pendingRelease' = {}
  /\ download' = [download EXCEPT !.settled = "resolved"]
  /\ UNCHANGED <<docCall, pieceBlock>>

\* ------------------------------------------------------------------------
\* DimensionsInput: the width and height inputs of the generator
\* ------------------------------------------------------------------------

\* what is typed into a dimension input
DimensionTexts ==
  {<<>>, <<"0">>, <<"0", "/", "4">>, <<"0", "-", "0", "/", "2">>,
   <<"2", "4">>, <<"2", "-", "1", "/", "2">>, <<"3", "/", "4">>,
   <<" ", "7", "/", "8">>, <<"1", "/", "0">>, <<"a", "b", "c">>,
   <<"1", "/", "3">>}

\* two numbers are the same number
SameNumber(a, b) == a[1] * b[2] = b[1] * a[2]

\* the state of DimensionsInput and of the specs when the generator mounts
InputInit ==
  /\ dimensions = [width |-> DefaultSpecs.width, height |-> DefaultSpecs.height]
  /\ widthStr = decimalToFraction(DefaultSpecs.width, DefaultMaxDenominator)
  /\ heightStr = decimalToFraction(DefaultSpecs.height, DefaultMaxDenominator)
  /\ widthIsValid = TRUE
  /\ heightIsValid = TRUE
  /\ edits = 0

\* isValidFractionString as handleWidthChange and handleHeightChange use it
AcceptsDimension(str) == isValidFractionString(str)

\* the text an input shows after a change event: the typed text, or, when
\* the committed number differs from the one held, the text the effect on
\* the prop sets
TextAfterChange(str, held) ==
  LET decimal == fractionToDecimal(str)
  IN IF AcceptsDimension(str) /\ decimal # Null /\ ~SameNumber(decimal, held)
     THEN decimalToFraction(decimal, DefaultMaxDenominator)
     ELSE str

\* the number the specs hold after a change event
NumberAfterChange(str, held) ==
  LET decimal == fractionToDecimal(str)
  IN IF AcceptsDimension(str) /\ decimal # Null THEN decimal ELSE held

handleWidthChange ==
  /\ edits < MaxEdits
  /\ \E newWidthStr \in DimensionTexts :
       /\ widthIsValid' = AcceptsDimension(newWidthStr)
       /\ dimensions' =
            [dimensions EXCEPT
               !.width = NumberAfterChange(newWidthStr, dimensions.width)]
       /\ widthStr' = TextAfterChange(newWidthStr, dimensions.width)
  /\ edits' = edits + 1
  /\ UNCHANGED <<heightStr, heightIsValid>>

handleHeightChange ==
  /\ edits < MaxEdits
  /\ \E newHeightStr \in DimensionTexts :
       /\ heightIsValid' = AcceptsDimension(newHeightStr)
       /\ dimensions' =
            [dimensions EXCEPT
               !.height = NumberAfterChange(newHeightStr, dimensions.height)]
       /\ heightStr' = TextAfterChange(newHeightStr, dimensions.height)
  /\ edits' = edits + 1
  /\ UNCHANGED <<widthStr, widthIsValid>>

\* the text of an input after it loses the focus
TextAfterBlur(str, isValid) ==
  LET decimal == fractionToDecimal(str)
  IN IF isValid /\ decimal # Null
     THEN decimalToFraction(decimal, DefaultMaxDenominator)
     ELSE str

handleWidthBlur ==
  /\ edits < MaxEdits
  /\ widthStr' = TextAfterBlur(widthStr, widthIsValid)
  /\ edits' = edits + 1
  /\ UNCHANGED <<dimensions, heightStr, widthIsValid, heightIsValid>>

handleHeightBlur ==
  /\ edits < MaxEdits
  /\ heightStr' = TextAfterBlur(heightStr, heightIsValid)
  /\ edits' = edits + 1
  /\ UNCHANGED <<dimensions, widthStr, widthIsValid, heightIsValid>>

\* ------------------------------------------------------------------------
\* The generator page (saved pieces) and MultiPieceExport.handleExportPDF
\* ------------------------------------------------------------------------

NoElement == 0

NoExportCall == [made |-> FALSE]

PiecesInit ==
  /\ savedPieces = <<>>
  /\ now = 0
  /\ canvasRefs = <<>>
  /\ exportCall = NoExportCall

\* the first index whose piece has the id, as the findIndex of the effect
\* on savedPieces finds it
FirstWithId(pieces, id) == CHOOSE k \in 1..Len(pieces) :
  /\ pieces[k].id = id
  /\ \A j \in 1..(k - 1) : pieces[j].id # id

\* canvasRefs.current after the commit and the effect on savedPieces: the
\* ref callbacks have stored, per index, the canvas element or null
\* (attached), and the effect keeps for every piece the entry of the first
\* index that holds its id
RefsAfterEffect(pieces, attached) ==
  [i \in 1..Len(pieces) |-> attached[FirstWithId(pieces, pieces[i].id)]]

\* what the ref callbacks may store for n canvases: element i, or null
Attachments(n) == {a \in [1..n -> 0..n] : \A i \in 1..n : a[i] \in {NoElement, i}}

\* handleSavePiece of StoneGenerator and of the page: the id is
\* Date.now().toString(), and the clock may not have moved since the last save
handleSavePiece ==
  /\ now < MaxSaves
  /\ Len(savedPieces) < MaxSaves
  /\ \E elapsed \in {0, 1}, attached \in Attachments(Len(savedPieces) + 1) :
       /\ now' = now + elapsed
       /\ savedPieces' = Append(savedPieces, [id |-> now', specs |-> dimensions])
       /\ canvasRefs' = RefsAfterEffect(savedPieces', attached)
  /\ UNCHANGED exportCall

\* prev.filter(piece => piece.id !== id)
WithoutId(pieces, id) == SelectSeq(pieces, LAMBDA piece : piece.id # id)

\* handleRemovePiece of the page, for the id of a listed piece
handleRemovePiece ==
  /\ \E k \in 1..Len(savedPieces), attached \in Attachments(Len(savedPieces)) :
       /\ savedPieces' = WithoutId(savedPieces, savedPieces[k].id)
       /\ Len(attached) >= Len(savedPieces')
       /\ canvasRefs' = RefsAfterEffect(savedPieces', attached)
  /\ UNCHANGED <<now, exportCall>>

\* the piece index last drawn on a canvas element by the loop of
\* handleExportPDF, 0 if none was
RenderedOn(element) ==
  LET drawn == {i \in 1..Len(savedPieces) : canvasRefs[i] = element}
  IN IF drawn = {} THEN 0 ELSE CHOOSE i \in drawn : \A j \in drawn : j <= i

\* canvasRefs.current.filter(canvas => canvas !== null), each canvas given by
\* the piece index last rendered on it
validCanvases ==
  LET kept == SelectSeq(canvasRefs, LAMBDA canvas : canvas # NoElement)
  IN [i \in 1..Len(kept) |-> RenderedOn(kept[i])]

\* handleExportPDF of MultiPieceExport up to its call of exportMultipleToPDF
handleExportPDF ==
  /\ exportCall = NoExportCall
  /\ IF Len(savedPieces) = 0
     THEN exportCall' = [made |-> FALSE, toast |-> "warning"]
     ELSE exportCall' = [made |-> TRUE, canvases |-> validCanvases,
                         specsArray |-> savedPieces]
  /\ UNCHANGED <<savedPieces, now, canvasRefs>>

\* ------------------------------------------------------------------------
\* The preview of StoneGenerator and StoneGenerator.optimized
\* ------------------------------------------------------------------------

MaxChanges == 4

Generators == {"debounced", "animationFrame"}

\* the state after the first render and its effects: the debounced effect
\* has set its timer, the optimized one (needsRedraw starts true) has
\* requested its frame; nothing is drawn yet.  The effect of useLocalStorage
\* has set what it read: with an item in localStorage that is a new object
\* (JSON.parse), without one it is the initialValue the state already holds.
RedrawInit ==
  /\ generator \in Generators
  /\ current = [specs |-> 0, options |-> 0]
  /\ needsRedraw = TRUE
  /\ queued = <<>>
  /\ pendingRedraw = <<current>>
  /\ timerId = 0
  /\ rereading \in BOOLEAN
  /\ preview = Null
  /\ changes = 0

\* the state after every queued call of setNeedsRedraw, in their order
RECURSIVE AfterQueued(_, _)
AfterQueued(state, calls) ==
  IF calls = <<>> THEN state ELSE AfterQueued(Head(calls), Tail(calls))

\* redrawCanvas of StoneGenerator.optimized as the render with this
\* needsRedraw and these values made it: it gives the pending frame
redrawCanvasScheduled(redraw, values, pending) ==
  IF ~redraw THEN pending       \* if (!needsRedraw) return
  ELSE <<values>>               \* cancelAnimationFrame, requestAnimationFrame

\* one render of StoneGenerator.optimized followed by its effects, and the
\* render that the effects' own setNeedsRedraw(true) causes.  replaced: specs
\* or options is another object than in the render before.
RenderOptimized(values, replaced) ==
  LET before == needsRedraw
      first == AfterQueued(needsRedraw, queued)
      \* the effect "perform redraw when needed": its dependencies are
      \* needsRedraw and redrawCanvas, which changes with specs, options
      \* and needsRedraw
      afterFirst ==
        IF replaced \/ first # before
        THEN redrawCanvasScheduled(first, values, pendingRedraw)
        ELSE pendingRedraw
      \* the effect "mark for redraw": setNeedsRedraw(true)
      second == IF replaced THEN TRUE ELSE first
      afterSecond ==
        IF second # first
        THEN redrawCanvasScheduled(second, values, afterFirst)
        ELSE afterFirst
  IN /\ current' = values
     /\ needsRedraw' = second
     /\ queued' = <<>>
     /\ pendingRedraw' = afterSecond
     /\ timerId' = timerId

\* one render of StoneGenerator followed by its effect: redrawCanvas
\* changes with specs and options, the clean-up of the effect clears the
\* timer and the effect sets a new one
RenderDebounced(values, replaced) ==
  /\ current' = values
  /\ pendingRedraw' = IF replaced THEN <<values>> ELSE pendingRedraw
  /\ timerId' = IF replaced THEN 1 - timerId ELSE timerId
  /\ UNCHANGED <<needsRedraw, queued>>

\* a render of either generator.  It is followed by the effect of
\* useLocalStorage, whose dependency initialValue is an object literal of
\* the render: after every render but the first it calls setStoredValue
\* with an object the state does not hold.
RenderWith(values, replaced) ==
  /\ IF generator = "animationFrame" THEN RenderOptimized(values, replaced)
     ELSE RenderDebounced(values, replaced)
  /\ rereading' = TRUE

\* handleWidthChange .. handleNotesChange: setSpecs with a new object, and
\* the render that follows
handleSpecsChange ==
  /\ changes < MaxChanges
  /\ changes' = changes + 1
  /\ RenderWith([current EXCEPT !.specs = changes + 1], TRUE)
  /\ UNCHANGED <<generator, preview>>

\* handleOptionChange: setOptions with a new object, and the render that
\* follows
handleOptionChange ==
  /\ changes < MaxChanges
  /\ changes' = changes + 1
  /\ RenderWith([current EXCEPT !.options = changes + 1], TRUE)
  /\ UNCHANGED <<generator, preview>>

\* the render for the setStoredValue of the effect of useLocalStorage: specs
\* and options keep their values and are new objects
StorageReread ==
  /\ rereading
  /\ RenderWith(current, TRUE)
  /\ UNCHANGED <<generator, preview, changes>>

\* the callback of a 50 ms timer of StoneGenerator, the one with this id:
\* redrawCanvas
TimerFires(id) ==
  /\ generator = "debounced"
  /\ pendingRedraw # Null
  /\ timerId = id
  /\ preview' = pendingRedraw
  /\ pendingRedraw' = Null
  /\ UNCHANGED <<generator, current, needsRedraw, queued, timerId, rereading,
                 changes>>

\* the callback of the animation frame of StoneGenerator.optimized: it
\* draws and calls setNeedsRedraw(false)
FrameFires ==
  /\ generator = "animationFrame"
  /\ pendingRedraw # Null
  /\ preview' = pendingRedraw
  /\ pendingRedraw' = Null
  /\ queued' = Append(queued, FALSE)
  /\ UNCHANGED <<generator, current, needsRedraw, timerId, rereading, changes>>

\* the render React makes for the queued calls of setNeedsRedraw
Rerender ==
  /\ generator = "animationFrame"
  /\ queued # <<>>
  /\ RenderWith(current, FALSE)
  /\ UNCHANGED <<generator, preview, changes>>

\* the variables of the user interface while it is not used
RedrawAtRest ==
  /\ generator = "debounced"
  /\ current = [specs |-> 0, options |-> 0]
  /\ needsRedraw = TRUE
  /\ queued = <<>>
  /\ pendingRedraw = Null
  /\ timerId = 0
  /\ rereading = FALSE
  /\ preview = Null
  /\ changes = 0

UiAtRest == InputInit /\ PiecesInit /\ RedrawAtRest

\* ------------------------------------------------------------------------
\* FractionMath as a state machine: an input, then the functions in turn
\* ------------------------------------------------------------------------

\* the decimals of the examples: 24, 2.5, 0.75, 24.5, 4.25, 999.99
ExampleDecimals ==
  {<<24, 1>>, <<5, 2>>, <<3, 4>>, <<49, 2>>, <<17, 4>>, <<99999, 100>>}

Decimals ==
  {<<k, Resolution>> : k \in 0..(MaxWhole * Resolution - 1)} \cup ExampleDecimals

Alphabet == {"0", "1", "2", "/", "-", " ", "a"}

ExampleStrings ==
  {<<"2", "-", "1", "/", "2">>, <<"3">>, <<"1", "/", "0">>, <<"a", "b", "c">>,
   <<"2", "-", "1", "/", "0">>, <<"1", "/", "3", "3">>, <<"\t", "7", "/", "8">>}

InputStrings ==
  UNION {[1..n -> Alphabet] : n \in 0..MaxLen} \cup ExampleStrings

\* the variables of the fraction functions while an export runs
FracAtRest ==
  /\ step = "input"
  /\ value = Null
  /\ maxDen = DefaultMaxDenominator
  /\ text = <<>>
  /\ parsed = Null
  /\ valid = FALSE
  /\ formatted = <<>>
  /\ formattedTwice = <<>>

FracInit ==
  /\ ExportAtRest
  /\ RenderAtRest
  /\ DocAtRest
  /\ UiAtRest
  /\ step = "input"
  /\ parsed = Null
  /\ valid = FALSE
  /\ formatted = <<>>
  /\ formattedTwice = <<>>
  /\ \/ /\ value \in Decimals
        /\ maxDen \in 1..DefaultMaxDenominator
        /\ text = <<>>
     \/ /\ value = Null
        /\ maxDen = DefaultMaxDenominator
        /\ text \in InputStrings

Convert ==
  /\ step = "input"
  /\ value # Null
  /\ text' = decimalToFraction(value, maxDen)
  /\ step' = "converted"
  /\ UNCHANGED <<value, maxDen, parsed, valid, formatted, formattedTwice, exportVars, renderVars, docVars, uiVars>>

Parse ==
  /\ \/ step = "converted"
     \/ step = "input" /\ value = Null
  /\ parsed' = fractionToDecimal(text)
  /\ step' = "parsed"
  /\ UNCHANGED <<value, maxDen, text, valid, formatted, formattedTwice, exportVars, renderVars, docVars, uiVars>>

CheckValid ==
  /\ step = "parsed"
  /\ valid' = isValidFractionString(text)
  /\ step' = "validated"
  /\ UNCHANGED <<value, maxDen, text, parsed, formatted, formattedTwice, exportVars, renderVars, docVars, uiVars>>

Format ==
  /\ step = "validated"
  /\ formatted' = formatFractionString(text)
  /\ step' = "formatted"
  /\ UNCHANGED <<value, maxDen, text, parsed, valid, formattedTwice, exportVars, renderVars, docVars, uiVars>>

FormatAgain ==
  /\ step = "formatted"
  /\ formattedTwice' = formatFractionString(formatted)
  /\ step' = "formattedTwice"
  /\ UNCHANGED <<value, maxDen, text, parsed, valid, formatted, exportVars, renderVars, docVars, uiVars>>

FracNext == Convert \/ Parse \/ CheckValid \/ Format \/ FormatAgain

FracSpec == FracInit /\ [][FracNext]_vars

\* ------------------------------------------------------------------------
\* The export as a state machine
\* ------------------------------------------------------------------------

Init == FracAtRest /\ ExportInit /\ RenderAtRest /\ DocAtRest /\ UiAtRest

Next ==
  \/ (Start /\ UNCHANGED <<fracVars, renderVars, docVars, uiVars>>)
  \/ (Validate /\ UNCHANGED <<fracVars, renderVars, docVars, uiVars>>)
  \/ (CreateDocument /\ UNCHANGED <<fracVars, renderVars, docVars, uiVars>>)
  \/ (ProcessBatch /\ UNCHANGED <<fracVars, renderVars, docVars, uiVars>>)
  \/ (ProcessPiece /\ UNCHANGED <<fracVars, renderVars, docVars, uiVars>>)
  \/ (ProcessAll /\ UNCHANGED <<fracVars, renderVars, docVars, uiVars>>)
  \/ (Finalize /\ UNCHANGED <<fracVars, renderVars, docVars, uiVars>>)
  \/ (Cleanup /\ UNCHANGED <<fracVars, renderVars, docVars, uiVars>>)

Spec == Init /\ [][Next]_vars

\* timers fire and a running task runs on: no step that can be taken is put
\* off for ever
FairSpec == Spec /\ WF_vars(Next)

\* ------------------------------------------------------------------------
\* The renders as a state machine
\* ------------------------------------------------------------------------

RenderNext ==
  \/ (redrawCanvas /\ UNCHANGED <<fracVars, exportVars, docVars, uiVars>>)
  \/ (redrawCanvasOptimized /\ UNCHANGED <<fracVars, exportVars, docVars, uiVars>>)
  \/ (renderCanvas /\ UNCHANGED <<fracVars, exportVars, docVars, uiVars>>)

\* the first state of a behaviour of the renderers: everything else at rest
RenderStart ==
  FracAtRest /\ ExportAtRest /\ DocAtRest /\ UiAtRest /\ RenderInit

RenderSpec == RenderStart /\ [][RenderNext]_vars

\* ------------------------------------------------------------------------
\* One exported page and its download as a state machine
\* ------------------------------------------------------------------------

DocNext ==
  \/ (CreatePage /\ UNCHANGED <<fracVars, exportVars, renderVars, uiVars>>)
  \/ (Download /\ UNCHANGED <<fracVars, exportVars, renderVars, uiVars>>)
  \/ (Release /\ UNCHANGED <<fracVars, exportVars, renderVars, uiVars>>)

\* the first state of a behaviour of one export: everything else at rest
DocStart ==
  FracAtRest /\ ExportAtRest /\ RenderAtRest /\ UiAtRest /\ DocInit

DocSpec == DocStart /\ [][DocNext]_vars

\* ------------------------------------------------------------------------
\* The dimension inputs as a state machine
\* ------------------------------------------------------------------------

InputStart ==
  FracAtRest /\ ExportAtRest /\ RenderAtRest /\ DocAtRest /\ InputInit
    /\ PiecesInit /\ RedrawAtRest

InputNext ==
  \/ (handleWidthChange /\ UNCHANGED <<fracVars, exportVars, renderVars, docVars, piecesVars, redrawVars>>)
  \/ (handleHeightChange /\ UNCHANGED <<fracVars, exportVars, renderVars, docVars, piecesVars, redrawVars>>)
  \/ (handleWidthBlur /\ UNCHANGED <<fracVars, exportVars, renderVars, docVars, piecesVars, redrawVars>>)
  \/ (handleHeightBlur /\ UNCHANGED <<fracVars, exportVars, renderVars, docVars, piecesVars, redrawVars>>)

InputSpec == InputStart /\ [][InputNext]_vars

\* ------------------------------------------------------------------------
\* The saved pieces and their export as a state machine
\* ------------------------------------------------------------------------

PiecesStart ==
  FracAtRest /\ ExportAtRest /\ RenderAtRest /\ DocAtRest /\ InputInit
    /\ PiecesInit /\ RedrawAtRest

PiecesNext ==
  \/ (handleSavePiece /\ UNCHANGED <<fracVars, exportVars, renderVars, docVars, inputVars, redrawVars>>)
  \/ (handleRemovePiece /\ UNCHANGED <<fracVars, exportVars, renderVars, docVars, inputVars, redrawVars>>)
  \/ (handleExportPDF /\ UNCHANGED <<fracVars, exportVars, renderVars, docVars, inputVars, redrawVars>>)

PiecesSpec == PiecesStart /\ [][PiecesNext]_vars

\* ------------------------------------------------------------------------
\* The preview and its redraws as a state machine
\* ------------------------------------------------------------------------

RedrawStart ==
  FracAtRest /\ ExportAtRest /\ RenderAtRest /\ DocAtRest /\ InputInit
    /\ PiecesInit /\ RedrawInit

RedrawNext ==
  \/ (handleSpecsChange /\ UNCHANGED <<fracVars, exportVars, renderVars, docVars, inputVars, piecesVars>>)
  \/ (handleOptionChange /\ UNCHANGED <<fracVars, exportVars, renderVars, docVars, inputVars, piecesVars>>)
  \/ (StorageReread /\ UNCHANGED <<fracVars, exportVars, renderVars, docVars, inputVars, piecesVars>>)
  \/ (TimerFires(0) /\ UNCHANGED <<fracVars, exportVars, renderVars, docVars, inputVars, piecesVars>>)
  \/ (TimerFires(1) /\ UNCHANGED <<fracVars, exportVars, renderVars, docVars, inputVars, piecesVars>>)
  \/ (FrameFires /\ UNCHANGED <<fracVars, exportVars, renderVars, docVars, inputVars, piecesVars>>)
  \/ (Rerender /\ UNCHANGED <<fracVars, exportVars, renderVars, docVars, inputVars, piecesVars>>)

\* a timer that stays set for 50 ms runs its callback: a timer that was
\* cleared is another one than the timer set after it
TimerDue(id) ==
  TimerFires(id) /\ UNCHANGED <<fracVars, exportVars, renderVars, docVars, inputVars, piecesVars>>

\* the next animation frame runs the callback that is requested then, and
\* React renders what is queued
FrameDue ==
  \/ (FrameFires /\ UNCHANGED <<fracVars, exportVars, renderVars, docVars, inputVars, piecesVars>>)
  \/ (Rerender /\ UNCHANGED <<fracVars, exportVars, renderVars, docVars, inputVars, piecesVars>>)

\* nothing makes the user change anything
RedrawSpec ==
  /\ RedrawStart
  /\ [][RedrawNext]_vars
  /\ WF_vars(TimerDue(0)) /\ WF_vars(TimerDue(1)) /\ WF_vars(FrameDue)

\* ------------------------------------------------------------------------
\* Properties of FractionMath
\* ------------------------------------------------------------------------

AfterParse == step \in {"parsed", "validated", "formatted", "formattedTwice"}

AfterValidate == step \in {"validated", "formatted", "formattedTwice"}

\* |a - b| <= 1/k for decimals a and b
Within(a, b, k) == Abs(a[1] * b[2] - b[1] * a[2]) * k <= a[2] * b[2]

\* C1: a decimal d in [0, 1000) converted with decimalToFraction(d, m) and
\* parsed back with fractionToDecimal is not null and lies within 1/(2*m)
\* of d; with the default m = 16 that is within 1/32.
C1_RoundTripWithinTolerance ==
  (AfterParse /\ value # Null) =>
     /\ parsed # Null
     /\ Within(value, parsed, 2 * maxDen)
     /\ (maxDen = DefaultMaxDenominator => Within(value, parsed, 32))

\* a decimal that is no multiple of 1/16 went through the round trip and
\* came back changed, but within the tolerance
C1_Witness ==
  /\ step = "parsed"
  /\ value \in Decimals
  /\ maxDen = DefaultMaxDenominator
  /\ parsed # Null
  /\ value[1] * parsed[2] # parsed[1] * value[2]
  /\ Within(value, parsed, 32)

\* C2: isValidFractionString(text) is true exactly when
\* fractionToDecimal(text) is not null, for every string.
C2_ValidIffParses == AfterValidate => (valid <=> parsed # Null)

\* both functions turned down a fraction with a zero denominator
C2_Witness ==
  /\ step = "validated"
  /\ text = <<"1", "/", "0">>
  /\ ~valid
  /\ parsed = Null

\* C3: formatFractionString is idempotent on every string that
\* fractionToDecimal parses: formatting the formatted string changes nothing.
C3_FormatIdempotent ==
  (step = "formattedTwice" /\ parsed # Null) => formattedTwice = formatted

\* the whole part and the remainder of a decimal
WholeOf(d) == d[1] \div d[2]

RemainderOf(d) == d[1] % d[2]

\* C4: with the default maxDenominator 16, decimalToFraction gives the whole
\* part alone when the remainder is 0 and a fraction string (N/D for a zero
\* whole part, W-N/D otherwise) when it is not: 24 gives "24", 2.5 gives
\* "2-1/2", 0.75 gives "3/4", 24.5 gives "24-1/2" and 4.25 gives "4-1/4".
C4_DecimalToFractionShapes ==
  (step = "converted" /\ maxDen = DefaultMaxDenominator) =>
     /\ (value = <<24, 1>> => text = <<"2", "4">>)
     /\ (value = <<5, 2>> => text = <<"2", "-", "1", "/", "2">>)
     /\ (value = <<3, 4>> => text = <<"3", "/", "4">>)
     /\ (value = <<49, 2>> => text = <<"2", "4", "-", "1", "/", "2">>)
     /\ (value = <<17, 4>> => text = <<"4", "-", "1", "/", "4">>)
     /\ (RemainderOf(value) = 0 =>
           IsDigits(text) /\ DigitsToInt(text) = WholeOf(value))
     /\ (RemainderOf(value) # 0 /\ WholeOf(value) = 0 => IsSimpleFraction(text))
     /\ (RemainderOf(value) # 0 /\ WholeOf(value) # 0 =>
           /\ IsMixedNumber(text)
           /\ DigitsToInt(SplitHead(text, "-")) = WholeOf(value))

\* 24.5 was converted to "24-1/2"
C4_Witness ==
  /\ step = "converted"
  /\ maxDen = DefaultMaxDenominator
  /\ value = <<49, 2>>
  /\ text = <<"2", "4", "-", "1", "/", "2">>

\* the three shapes, stated on the characters of the string without its
\* whitespace: digits with at most one "-" and one "/", the "-" only before
\* the "/", every run of digits non-empty
HasNumberShape(s) ==
  LET c == CleanStr(s)
      slash == Positions(c, "/")
      dash == Positions(c, "-")
  IN /\ Len(c) > 0
     /\ \A i \in 1..Len(c) : c[i] \in Digits \cup {"/", "-"}
     /\ Cardinality(slash) <= 1
     /\ Cardinality(dash) <= Cardinality(slash)
     /\ c[1] \in Digits /\ c[Len(c)] \in Digits
     /\ \A i \in dash : \A j \in slash : i + 1 < j

\* the digits after the "/" of a string that has the number shape are all 0
HasZeroDenominator(s) ==
  LET c == CleanStr(s) IN
  \E j \in Positions(c, "/") : \A i \in (j + 1)..Len(c) : c[i] = "0"

\* C5: fractionToDecimal, after removing whitespace, accepts exactly the
\* shapes integer, N/D and W-N/D; a zero denominator, the empty string and
\* every other shape give null, and the function answers for every string:
\* "2-1/2" and "3" are valid, "1/0" and "abc" are not.
C5_AcceptsExactlyThreeShapes ==
  /\ AfterParse =>
       /\ (parsed # Null <=> (HasNumberShape(text) /\ ~HasZeroDenominator(text)))
       /\ (parsed # Null => Len(parsed) = 2 /\ parsed[1] >= 0 /\ parsed[2] > 0)
       /\ (text = <<"2", "-", "1", "/", "2">> => parsed = <<5, 2>>)
       /\ (text = <<"3">> => parsed = <<3, 1>>)
       /\ (text \in {<<"1", "/", "0">>, <<"a", "b", "c">>, <<>>} => parsed = Null)
  /\ AfterValidate =>
       /\ (text \in {<<"2", "-", "1", "/", "2">>, <<"3">>} => valid)
       /\ (text \in {<<"1", "/", "0">>, <<"a", "b", "c">>} => ~valid)

\* a mixed number with a zero denominator was given and came back null
C5_Witness ==
  /\ step = "parsed"
  /\ text = <<"2", "-", "1", "/", "0">>
  /\ parsed = Null

\* numerator and error of the candidate of denominator d for the remainder
\* r/q: round(r/q * d), and |r/q - numerator/d| as a rational
CandidateNumerator(r, q, d) == MathRound(r * d, q)

CandidateError(r, q, d) ==
  <<Abs(r * d - CandidateNumerator(r, q, d) * q), q * d>>

ErrorLess(a, b) == a[1] * b[2] < b[1] * a[2]

\* the smallest denominator among those of least candidate error
NearestDenominator(r, q, m) ==
  CHOOSE d \in 1..m :
    /\ \A e \in 1..m : ~ErrorLess(CandidateError(r, q, e), CandidateError(r, q, d))
    /\ \A e \in 1..(d - 1) :
         ErrorLess(CandidateError(r, q, d), CandidateError(r, q, e))

NearestPair(r, q, m) ==
  LET d == NearestDenominator(r, q, m) IN <<CandidateNumerator(r, q, d), d>>

Converted == step = "converted" /\ RemainderOf(value) # 0

\* C23: for a non-zero remainder decimalToFraction picks, among the
\* denominators 1..maxDenominator with numerator round(r * d), the pair of
\* least error, the smallest denominator on ties, and reduces it by the gcd
C23_NearestSmallestDenominator ==
  Converted =>
    text = FormatFraction(<<>>, WholeOf(value),
                          NearestPair(RemainderOf(value), value[2], maxDen))

\* C23 as amended: the scan starts from 0/1 with the remainder itself as the
\* error, and a denominator replaces the best so far only when its error is
\* strictly smaller; so 0/1 stays when no denominator is nearer than 0, and
\* otherwise the pair of least error with the smallest denominator is
\* picked; the pair is then reduced by the gcd
C23_NearestFromZeroOverOne ==
  Converted =>
    LET r == RemainderOf(value)
        q == value[2]
        nearer == {d \in 1..maxDen : ErrorLess(CandidateError(r, q, d), <<r, q>>)}
    IN text = FormatFraction(<<>>, WholeOf(value),
                             IF nearer = {} THEN <<0, 1>>
                             ELSE NearestPair(r, q, maxDen))

\* 17/48 with maxDenominator 8: 1/3 and 3/8 are equally near, both 1/48
\* away, and the smaller denominator 3 is kept
C23_Witness ==
  /\ Converted
  /\ value = <<17, Resolution>> /\ maxDen = 8
  /\ ~ErrorLess(CandidateError(17, Resolution, 3), CandidateError(17, Resolution, 8))
  /\ ~ErrorLess(CandidateError(17, Resolution, 8), CandidateError(17, Resolution, 3))
  /\ CandidateNumerator(17, Resolution, 8) = 3
  /\ NearestDenominator(17, Resolution, maxDen) = 3
  /\ text = <<"1", "/", "3">>

\* numerator and denominator of the fraction part of a converted string
FractionPartOf(str) ==
  LET frac == IF Positions(str, "-") = {} THEN str ELSE SplitTail(str, "-")
  IN <<DigitsToInt(SplitHead(frac, "/")), DigitsToInt(SplitTail(frac, "/"))>>

\* C27: for a non-zero remainder the fraction part N/D of
\* decimalToFraction(d, m) is proper and in lowest terms:
\* 1 <= N < D <= m and gcd(N, D) = 1
C27_ProperFractionInLowestTerms ==
  Converted =>
    LET f == FractionPartOf(text)
    IN /\ 1 <= f[1] /\ f[1] < f[2] /\ f[2] <= maxDen
       /\ findGCD(f[1], f[2]) = 1

\* ------------------------------------------------------------------------
\* Properties of the renders
\* ------------------------------------------------------------------------

\* the last render call had a context and drew
Drew == renderCall.caller # "none" /\ renderCall.context = "ok"

\* C11: drawStoneMockup with showPolishedEdges on makes no red stroke (edge
\* line or X mark) when polishedEdges is empty, and exactly one stroke call
\* for the edge lines when some of the four sides are selected, however many.
C11_OneBatchedEdgeStroke ==
  (Drew /\ renderCall.options.showPolishedEdges) =>
     IF Len(pieceSpecs.polishedEdges) = 0
     THEN surface.edgeStrokes = 0 /\ surface.markStrokes = 0
     ELSE surface.edgeStrokes = 1

\* C17: for a scale in [0.5, 2] the rectangle drawStoneMockup draws lies
\* within the canvas inset by padding on every side.
C17_RectWithinPadding ==
  Drew =>
    LET padding == renderCall.options.padding
        rect == surface.rect
    IN /\ RatLeq(Int2Rat(padding), rect.x)
       /\ RatLeq(RatAdd(rect.x, rect.width), Int2Rat(canvasWidth - padding))
       /\ RatLeq(Int2Rat(padding), rect.y)
       /\ RatLeq(RatAdd(rect.y, rect.height), Int2Rat(canvasHeight - padding))

\* the cache key of the minor grid for the piece drawn with the options
MinorGridKey(options) ==
  CacheKey(RatMul(StoneRect(pieceSpecs, options).finalScale, <<1, 4>>))

\* C19: once the minor-grid pattern of a scale is in the cache, every later
\* render with showGrid at that scale fills with the cached pattern and
\* does not call createPattern, and no render removes or replaces an entry
\* of the cache.
C19_CachedPatternReusedAndKept ==
  [][/\ \A k \in DOMAIN gridPatternCache :
          /\ k \in DOMAIN gridPatternCache'
          /\ gridPatternCache'[k] = gridPatternCache[k]
     /\ (/\ renderCall'.caller # "none"
         /\ renderCall'.context = "ok"
         /\ renderCall'.renderer = "optimized"
         /\ renderCall'.options.showGrid
         /\ MinorGridKey(renderCall'.options) \in DOMAIN gridPatternCache) =>
           /\ createPatternCalls' = createPatternCalls
           /\ surface'.minorGrid = "cachedPattern"]_vars

\* the second render filled with the pattern the first one made
C19_Witness ==
  /\ renders = 2
  /\ createPatternCalls = 1
  /\ Drew
  /\ surface.minorGrid = "cachedPattern"
  /\ gridPatternCache[MinorGridKey(renderCall.options)] = 1

\* C20: when the canvas gives no 2D context the render call fails with a
\* RenderError reported to its caller, and draws nothing.
C20_NoContextIsRenderError ==
  (renderCall.caller # "none" /\ renderCall.context = "null") =>
     /\ reported = "RenderError"
     /\ surface = BlankSurface

\* ------------------------------------------------------------------------
\* Properties of the multi-piece export
\* ------------------------------------------------------------------------

\* the pieces named by the blocks of one kind on a page, in order
PiecesOf(page, kind) ==
  LET blocks == SelectSeq(page, LAMBDA b : b.kind = kind)
  IN [j \in 1..Len(blocks) |-> blocks[j].piece]

Placeholders == {"notAvailable", "renderError"}

PlaceholdersOf(page) ==
  LET blocks == SelectSeq(page, LAMBDA b : b.kind \in Placeholders)
  IN [j \in 1..Len(blocks) |-> blocks[j].piece]

\* page k shows the title and text of piece k and its image
ShowsFullPiece(page, k) ==
  /\ PiecesOf(page, "title") = <<k>>
  /\ PiecesOf(page, "details") = <<k>>
  /\ PiecesOf(page, "image") = <<k>>
  /\ PlaceholdersOf(page) = <<>>

\* page k shows the title and text of piece k and a placeholder message
ShowsPlaceholderPiece(page, k) ==
  /\ PiecesOf(page, "title") = <<k>>
  /\ PiecesOf(page, "details") = <<k>>
  /\ PiecesOf(page, "image") = <<>>
  /\ PlaceholdersOf(page) = <<k>>

\* the calls of pdf.addPage: the document starts with one page
AddPageCalls == Len(pdf.pages) - 1

AllCanvasesOk == \A i \in 1..Len(canvases) : canvases[i] = "ok"

\* C6: exportMultipleToPDF given n >= 1 valid artifacts and n pieces makes a
\* document with exactly n piece titles, "Piece 1" to "Piece n" in order and
\* one per page, and exactly n - 1 calls of addPage (5 titles and 4 page
\* breaks for n = 5).
C6_TitlesAndPageBreaks ==
  (phase = "Delivered" /\ Len(canvases) = Len(specsArray) /\ AllCanvasesOk) =>
     /\ AddPageCalls = Len(specsArray) - 1
     /\ \A k \in 1..Len(pdf.pages) : PiecesOf(pdf.pages[k], "title") = <<k>>
     /\ (Len(specsArray) = 5 => Len(pdf.pages) = 5 /\ AddPageCalls = 4)

\* the batched export delivered five valid pieces on five pages
C6_Witness ==
  /\ phase = "Delivered"
  /\ impl = "batched"
  /\ Len(specsArray) = 5
  /\ Len(canvases) = 5
  /\ AllCanvasesOk
  /\ Len(pdf.pages) = 5

\* C7: exportMultipleToPDF given 5 pieces of which the artifact of piece
\* index 2 is missing delivers a document in which pieces 0, 1, 3 and 4 show
\* their text block and image and piece 2 shows its text block with a
\* placeholder message instead of the image.
C7_MissingArtifactPlaceholder ==
  (/\ phase = "Delivered"
   /\ Len(specsArray) = 5
   /\ canvases = <<"ok", "ok", "null", "ok", "ok">>) =>
     /\ Len(pdf.pages) = 5
     /\ \A k \in {1, 2, 4, 5} : ShowsFullPiece(pdf.pages[k], k)
     /\ ShowsPlaceholderPiece(pdf.pages[3], 3)

\* C8: exportMultipleToPDF called with an empty or missing canvas list or an
\* empty or missing piece list fails with the validation error at once: no
\* document is constructed, no page or text is added, no timer is set and
\* nothing is delivered.
C8_EmptyInputsFailFast ==
  LET empty == \/ "canvases" \notin given \/ Len(canvases) = 0
               \/ "specsArray" \notin given \/ Len(specsArray) = 0
  IN (empty /\ phase \notin {"Idle", "Validating"}) =>
        /\ phase = "Failed"
        /\ error = "validation"
        /\ pdf = NoPdf
        /\ timer = "none"
        /\ delivery = "none"
        /\ piecesInTask = 0

\* two canvases and an empty piece list were turned down
C8_Witness ==
  /\ phase = "Failed"
  /\ error = "validation"
  /\ given = {"canvases", "specsArray"}
  /\ Len(canvases) = 2
  /\ specsArray = <<>>
  /\ pdf = NoPdf

\* C9: during exportMultipleToPDF (batched or optimized), whatever pieces
\* fail, at most one batch of at most 2 pieces is handled between two
\* returns of control to the host event loop.
C9_YieldBetweenBatches ==
  impl \in {"batched", "optimized"} =>
     batchesInTask <= 1 /\ piecesInTask <= batchSize

ImageFails == {"toDataURLThrows", "addImageThrows"}

\* C22: a piece whose image cannot be embedded (toDataURL or addImage
\* throwing) does not abort exportMultipleToPDF: the piece keeps its title
\* and text block with a placeholder message instead of the image, and
\* every other piece is processed normally
C22_ImageFailureKeepsTextAndPlaceholder ==
  (/\ phase = "Delivered"
   /\ Len(canvases) = Len(specsArray)
   /\ \A i \in 1..Len(canvases) : canvases[i] \in ImageFails \cup {"ok"}) =>
     /\ Len(pdf.pages) = Len(specsArray)
     /\ \A k \in 1..Len(pdf.pages) :
          IF canvases[k] \in ImageFails
          THEN ShowsPlaceholderPiece(pdf.pages[k], k)
          ELSE ShowsFullPiece(pdf.pages[k], k)

\* the count the project header prints, and the piece blocks of the document
TotalPiecesPrinted == PiecesOf(pdf.pages[1], "header")[1]

RECURSIVE TitlesUpTo(_)
TitlesUpTo(k) ==
  IF k = 0 THEN 0
  ELSE TitlesUpTo(k - 1) + Len(PiecesOf(pdf.pages[k], "title"))

PieceBlocks == TitlesUpTo(Len(pdf.pages))

\* C28: in every document exportMultipleToPDF delivers, the "Total Pieces"
\* count of the header equals the number of piece blocks in the document
C28_TotalPiecesIsPieceBlocks ==
  phase = "Delivered" => TotalPiecesPrinted = PieceBlocks

\* C29: every call of the export eventually settles, resolved or rejected,
\* whichever document-builder or DOM operation throws, in the first batch,
\* in the timer callback of a later batch, in finalizePDF or in the delayed
\* clean-up
C29_EveryCallSettles ==
  (phase = "Validating") ~> (phase \in {"Delivered", "Failed"})

\* ------------------------------------------------------------------------
\* Properties of the exported page and its download
\* ------------------------------------------------------------------------

\* C12: the polished-edges line of a piece block is "Polished Edges: "
\* followed by the comma-joined sides, and "Polished Edges: None" when
\* polishedEdges is the empty list or undefined
C12_EdgesLineNoneWhenEmpty ==
  pieceBlock.made =>
    pieceBlock.edgesLine =
      (IF pieceBlock.polishedEdges = Undefined \/ pieceBlock.polishedEdges = <<>>
       THEN <<"Polished Edges: ", "None">>
       ELSE <<"Polished Edges: ">> \o Join(pieceBlock.polishedEdges))

\* C13: on desktop delivery every implementation saves a multi-piece export
\* as "{name}-stone-project.pdf", the name (or "Stone Project") lowercased
\* and with each whitespace run replaced by a hyphen
C13_MultiFilenameEveryImplementation ==
  (download.done /\ docCall.kind = "multi" /\ ~download.isMobile) =>
    download.saved =
      MultiFilename(IF download.projectName = <<>> THEN DefaultProjectName
                    ELSE download.projectName)

UIRoutes == {"StoneGenerator", "StoneGenerator.optimized"}

\* C14: a single-piece export started from the UI has its width and height
\* fraction-formatted in the title, and in the filename
\* stone-mockup-{w}x{h}.pdf it is saved under
C14_SingleFractionFormatted ==
  (pieceBlock.made /\ docCall.kind = "single" /\ docCall.route \in UIRoutes) =>
    LET w == decimalToFraction(pieceBlock.width, DefaultMaxDenominator)
        h == decimalToFraction(pieceBlock.height, DefaultMaxDenominator)
    IN /\ pieceBlock.title =
            [heading |-> "Stone Mockup", width |-> w, height |-> h]
       /\ (download.done /\ ~download.isMobile) =>
            download.saved = SingleFilename(w, h)

\* C15: once a mobile delivery has run and no clean-up timer is left, every
\* handle it created (object URL, iframe, link) has been released
C15_HandlesReleased ==
  (download.done /\ download.isMobile /\ pendingRelease = {}) => handles = {}

\* C16: with isMobile true the document is shown in a new viewing context
\* and, when window.open yields no window, a download link is clicked
\* exactly once; with isMobile false only the direct save runs
C16_DeliveryByPlatformFlag ==
  download.done =>
    IF download.isMobile
    THEN /\ download.saved = Null
         /\ download.windowOpenCalls > 0 \/ "iframe" \in download.created
         /\ (download.env = "blocked" /\ download.windowOpenCalls > 0) =>
              download.linkClicks = 1
         /\ download.opened > 0 => download.linkClicks = 0
    ELSE /\ download.saved # Null
         /\ download.windowOpenCalls = 0
         /\ download.linkClicks = 0
         /\ download.created = {}

\* C18: the notes shift the image down by min(5 * lineCount, 60), and the
\* image block stays on the page: image y + 120 <= 210, in the single and
\* the multi-piece export, on the first and on later pages
C18_ImageStaysOnPage ==
  pieceBlock.made =>
    LET withoutNotes ==
          IF docCall.kind = "single" THEN SingleImageY(docCall.impl, 0)
          ELSE MultiImageY(docCall.impl, 0, pieceBlock.index = 0)
        shift == IF pieceBlock.noteLines * 5 < 60
                 THEN pieceBlock.noteLines * 5 ELSE 60
    IN /\ pieceBlock.imageY = withoutNotes + shift
       /\ pieceBlock.imageY + imageHeight <= pageHeight

\* ------------------------------------------------------------------------
\* Properties of the dimension inputs
\* ------------------------------------------------------------------------

Positive(a) == a # Null /\ a[2] > 0 /\ a[1] > 0

\* C21: a width or height committed from the dimension input is a strictly
\* positive finite number; text denoting a non-positive value ("0", "0/4")
\* is a validation failure and leaves the specs unchanged
C21_CommittedDimensionsPositive ==
  /\ Positive(dimensions.width)
  /\ Positive(dimensions.height)

\* ------------------------------------------------------------------------
\* Properties of the saved pieces and their export
\* ------------------------------------------------------------------------

\* C26: after any sequence of save and remove operations the ids of the
\* saved pieces are pairwise distinct, so that removing by id deletes
\* exactly one piece
C26_IdsPairwiseDistinct ==
  \A i, j \in 1..Len(savedPieces) :
    i # j => savedPieces[i].id # savedPieces[j].id

\* C30: the artifact handleExportPDF passes at position i is the canvas
\* rendered from savedPieces[i], also when the canvas reference of an
\* earlier piece is null
C30_ArtifactsPairedWithTheirPieces ==
  exportCall.made =>
    \A i \in 1..Len(exportCall.canvases) : exportCall.canvases[i] = i

\* C30 with distinct ids, which leaves the null references as the only
\* cause
C30_PairedWhenIdsDistinct ==
  (exportCall.made /\ C26_IdsPairwiseDistinct) =>
    \A i \in 1..Len(exportCall.canvases) : exportCall.canvases[i] = i

\* ------------------------------------------------------------------------
\* Properties of the preview
\* ------------------------------------------------------------------------

\* every pair of specs and options objects a behaviour can render
PreviewValues ==
  [specs : 0..MaxChanges, options : 0..MaxChanges]

\* a redraw that is pending is one for the specs and options of the last
\* render: the one scheduled for values replaced since has been cancelled
PendingRedrawIsLatest ==
  pendingRedraw # Null => pendingRedraw = <<current>>

\* C25: the preview follows the specs and the options, in both generators.
\* A redraw that is pending is always one for the specs and options of the
\* last render; whatever the changes were, specs and options that stay are
\* eventually what the canvas is drawn from; and once the changes have
\* stopped the canvas keeps showing the latest ones.
C25_PreviewFollowsLatest ==
  /\ []PendingRedrawIsLatest
  /\ \A v \in PreviewValues :
        (current = v) ~> (preview = <<v>> \/ current # v)
  /\ <>[](preview = <<current>>)

\* the same of the generator that requests animation frames
PreviewOfOptimizedFollowsLatest ==
  (generator = "animationFrame") => C25_PreviewFollowsLatest

\* ------------------------------------------------------------------------
\* Properties of the grid
\* ------------------------------------------------------------------------

\* a render that drew a grid
GridDrawn ==
  /\ renderCall # NoCall
  /\ renderCall.context = "ok"
  /\ renderCall.options.showGrid

\* the grid lines of the last render
LastGrid ==
  GridOf(renderCall.renderer, pieceSpecs, renderCall.options,
         surface.minorGrid \in {"cachedPattern", "newPattern"})

LastRect == StoneRect(pieceSpecs, renderCall.options)

\* position lies between start and start + length
Between(position, start, length) ==
  RatLeq(start, position) /\ RatLeq(position, RatAdd(start, length))

\* position is a whole number of steps of so many real inches from the edge
OnInches(position, edge, inches) ==
  LET steps == RatDiv(RatSub(position, edge),
                      RatMul(inches, LastRect.finalScale))
  IN steps[2] = 1

\* the grid lines of the last render lie inside the rectangle of the piece
GridInsidePiece ==
  GridDrawn =>
    /\ \A p \in LastGrid.minorVertical \cup LastGrid.majorVertical :
         Between(p, LastRect.x, LastRect.width)
    /\ \A p \in LastGrid.minorHorizontal \cup LastGrid.majorHorizontal :
         Between(p, LastRect.y, LastRect.height)

\* C24: with showGrid on, every grid line lies inside the rectangle of the
\* piece, the minor lines are at multiples of 1/4 real inch and the major
\* lines at multiples of 1 real inch from the left and the top edge of the
\* piece, and the optimized renderer draws its major lines where the
\* original one draws them.
C24_GridOnRealInchesFromThePiece ==
  GridDrawn =>
    /\ GridInsidePiece
    /\ \A p \in LastGrid.minorVertical : OnInches(p, LastRect.x, <<1, 4>>)
    /\ \A p \in LastGrid.minorHorizontal : OnInches(p, LastRect.y, <<1, 4>>)
    /\ \A p \in LastGrid.majorVertical : OnInches(p, LastRect.x, <<1, 1>>)
    /\ \A p \in LastGrid.majorHorizontal : OnInches(p, LastRect.y, <<1, 1>>)
    /\ LET other == drawGrid(LastRect)
       IN /\ LastGrid.majorVertical = other.majorVertical
          /\ LastGrid.majorHorizontal = other.majorHorizontal

\* the same of the original renderer alone
GridOfOriginalOnRealInches ==
  (GridDrawn /\ renderCall.renderer = "original") =>
    C24_GridOnRealInchesFromThePiece

\* the major lines alone, whichever the renderer
MajorLinesFromThePiece ==
  GridDrawn =>
    /\ \A p \in LastGrid.majorVertical : OnInches(p, LastRect.x, <<1, 1>>)
    /\ \A p \in LastGrid.majorHorizontal : OnInches(p, LastRect.y, <<1, 1>>)

====
